---- MODULE Spec2Model ----
(***************************************************************************)
(* A model of the core of the Anthropic <-> OpenAI protocol converter:     *)
(*   - the SSE generator       src/app/fixed_sse_generator.py              *)
(*   - the response converter  src/app/converter.py                        *)
(*   - the request coalescer   src/api_server.py                           *)
(* Strings that the code concatenates or splits are sequences of tokens:   *)
(* "Hel" is <<"H","e","l">>, the empty string is <<>>.                     *)
(***************************************************************************)
EXTENDS Integers, Sequences, FiniteSets, TLC

VARIABLES
    \* ---- SSE generator (FixedSSEGenerator and the frame of its generator)
    pc,                    \* "create" | "generate" | "reading" | "done" | "aborted"
    exit_path,             \* which return / except ended the generator
    status_code,           \* upstream_response.status_code
    nread,                 \* lines of the upstream body consumed so far
    fed,                   \* the delta lines consumed so far, in order
    out,                   \* the events yielded so far, in order
    next_block_index,      \* self.next_block_index
    current_text_block,    \* self.current_text_block
    current_tool_block,    \* self.current_tool_block
    text_started, text_finished, tool_started,
    function_delta,        \* local of the generator, bound on the first tool delta
    accumulated_text, accumulated_tool_args,
    upstream_body,         \* the upstream HTTP body: "open" | "consumed" | "broken" | "closed"
    \* ---- response converters (LiteConverter, AnthropicToOpenAIConverter)
    conv_pc,               \* "idle" | "request" | "call" | "returned" | "raised"
    converter,             \* the class whose convert_response is called
    openai_response,       \* its argument
    anthropic_response,    \* its result
    anthropic_request,     \* the messages of the request that a round trip starts from
    \* ---- request coalescer and the /v1/messages handler of api_server.py
    cache,                 \* request_deduplicator.cache: hash -> (time, response)
    now,                   \* time.time(), in seconds
    ticks,                 \* how often the clock has advanced
    req_pc,                \* per handler thread: "idle" | "calling" | "waiting" | "done"
    req_data,              \* per handler thread: the request it serves
    arrived,               \* per handler thread: the time its request arrived
    called,                \* per handler thread: it has invoked the upstream
    inflight,              \* per handler thread: serial number of its upstream call
    resp,                  \* per handler thread: the response it returned
    upstream_calls,        \* upstream invocations so far
    \* ---- the /v1/messages handlers and their upstream calls
    h_pc,                  \* "calling" | "returned" | "raised" | "responded"
    handler,               \* which of the repository's handlers serves the request
    client_wants_stream,   \* the request asked for stream:true
    attempt,               \* loop variable of the retry loop
    attempts_made,         \* calls of the upstream so far
    sleeps,                \* the time.sleep calls so far, in tenths of a second
    last_outcome,          \* what the last upstream call came to
    downstream,            \* the HTTP response sent to the client, or the exception raised
    \* ---- pacing of an event stream
    pace_pc,               \* "call" | "returned"
    pacing,                \* which pacing layer runs
    enable_delay,          \* pacing is switched on
    original,              \* the input of the layer: events, or upstream text chunks
    paced,                 \* what the layer emitted, and how often it slept
    \* ---- the utilities: circuit breaker, memory cache, rate_limit decorator
    clock,                 \* time.time(), in seconds
    ops,                   \* calls of the utility so far
    cb_pc,                 \* the breaker's wrapper: "idle" | "running" (inside func)
    state,                 \* self.state: "CLOSED" | "OPEN" | "HALF_OPEN"
    failure_count,         \* self.failure_count
    last_failure_time,     \* self.last_failure_time
    cb_outcome,            \* how the last call ended: "returned" | "raised" | "rejected"
    invoked,               \* invocations of the wrapped function so far
    _cache,                \* MemoryCache._cache: key -> entry
    mc_result,             \* what the last get returned
    evictions,             \* MemoryCache._stats['evictions']
    call_times,            \* the call_times list of the rate_limit decorator
    rl_pc,                 \* per thread: "idle" | "filter" | "assign" | "check" | "record" | "call" | "rejected"
    rl_time,               \* per thread: the local current_time
    kept,                  \* per thread: the list built by the comprehension
    executions             \* the current_time of every call that went on to the wrapped handler

varsSSE == <<pc, exit_path, status_code, nread, fed, out,
             next_block_index, current_text_block, current_tool_block,
             text_started, text_finished, tool_started, function_delta,
             accumulated_text, accumulated_tool_args, upstream_body>>

varsConv == <<conv_pc, converter, openai_response, anthropic_response,
              anthropic_request>>

varsCoal == <<cache, now, ticks, req_pc, req_data, arrived, called, inflight, resp,
              upstream_calls>>

varsHandler == <<h_pc, handler, client_wants_stream, attempt, attempts_made, sleeps,
                 last_outcome, downstream>>

varsPace == <<pace_pc, pacing, enable_delay, original, paced>>

varsBreaker == <<cb_pc, state, failure_count, last_failure_time, cb_outcome, invoked>>

varsCache == <<_cache, mc_result, evictions>>

varsLimiter == <<call_times, rl_pc, rl_time, kept, executions>>

varsUtil == <<clock, ops, varsBreaker, varsCache, varsLimiter>>

varsCore == <<varsSSE, varsConv, varsCoal, varsHandler, varsPace>>

vars == <<varsCore, varsUtil>>

-----------------------------------------------------------------------------
(* Bounds *)

\* Lines of one upstream body that are consumed without ending the stream.
MaxLines == 3

\* Handler threads (concurrent requests) of the /v1/messages endpoint.
NumRequests == 2

\* Advances of the clock in one behaviour.
MaxTicks == 2

-----------------------------------------------------------------------------
(* Values *)

\* Python None where an index is expected (json: null).
NoIdx == -1

\* A key that is absent from a JSON object (dict.get falls to its default).
Absent == "<absent>"

\* choice.get('finish_reason', ...) when the key is absent.
NoFinish == Absent

Max(a, b) == IF a >= b THEN a ELSE b

\* len(s.split()): the number of maximal runs of non-blank tokens.
RECURSIVE SplitLen(_)
SplitLen(s) ==
    IF s = <<>> THEN 0
    ELSE LET n == Len(s)
             startsWord == s[n] # " " /\ (n = 1 \/ s[n - 1] = " ")
         IN SplitLen(SubSeq(s, 1, n - 1)) + (IF startsWord THEN 1 ELSE 0)

-----------------------------------------------------------------------------
(* Events: what one yielded "data: {...}" chunk carries *)

Ev(t, i, k, d, n) == [type |-> t, index |-> i, kind |-> k, data |-> d, tokens |-> n]

_create_message_start == Ev("message_start", NoIdx, "", <<>>, 0)

_create_content_block_delta(index, delta_type, content) ==
    Ev("content_block_delta", index, delta_type, content, 0)

_create_content_block_stop(index) == Ev("content_block_stop", index, "", <<>>, 0)

_create_message_delta(stop_reason, output_tokens) ==
    Ev("message_delta", NoIdx, stop_reason, <<>>, output_tokens)

_create_message_stop == Ev("message_stop", NoIdx, "", <<>>, 0)

_create_done == Ev("[DONE]", NoIdx, "", <<>>, 0)

_create_error_response(status) ==
    Ev("error", NoIdx, IF status = 429 THEN "rate_limit_error" ELSE "api_error", <<>>, 0)

stream_error_event == Ev("error", NoIdx, "stream_error", <<>>, 0)

\* The error texts of the short paths.
RateLimitText == <<"[error]">>
InvalidFormatText == <<"[invalid]">>

-----------------------------------------------------------------------------
(* The generator's frame as a record, so that helper steps compose *)

Unbound == [bound |-> FALSE, name |-> "", arguments |-> <<>>]
Bound(fn) == [bound |-> TRUE, name |-> fn.name, arguments |-> fn.arguments]

Frame ==
    [out |-> out, next_block_index |-> next_block_index,
     current_text_block |-> current_text_block,
     current_tool_block |-> current_tool_block,
     text_started |-> text_started, text_finished |-> text_finished,
     tool_started |-> tool_started, function_delta |-> function_delta,
     accumulated_text |-> accumulated_text,
     accumulated_tool_args |-> accumulated_tool_args,
     raised |-> FALSE]

Yield(m, e) == [m EXCEPT !.out = Append(@, e)]

\* _create_content_block_start: allocates the index and records the current block.
_create_content_block_start(m, block_type, original_index) ==
    IF block_type = "text"
    THEN LET block_index == m.next_block_index
         IN [Yield(m, Ev("content_block_start", block_index, "text", <<>>, 0))
                EXCEPT !.next_block_index = @ + 1,
                       !.current_text_block = block_index]
    ELSE LET block_index == IF original_index # NoIdx THEN original_index
                            ELSE m.next_block_index
         IN [Yield(m, Ev("content_block_start", block_index, "tool_use", <<>>, 0))
                EXCEPT !.next_block_index =
                           IF original_index # NoIdx THEN @ ELSE @ + 1,
                       !.current_tool_block = block_index]

\* The tool branches without the stop of the open text block.
LeaveTextOpen(m) == m

\* "if text_started and not text_finished: stop the text block"
CloseOpenText(m) ==
    IF m.text_started /\ ~m.text_finished
    THEN [Yield(m, _create_content_block_stop(m.current_text_block))
             EXCEPT !.text_finished = TRUE]
    ELSE m

\* One pass of "for tool_call_delta in tool_calls" (lines 481-513).
ToolCallDelta(m, tc) ==
    LET m1 == CloseOpenText(m)
        m2 == IF ~m1.tool_started
              THEN LET s == [m1 EXCEPT !.tool_started = TRUE,
                                       !.function_delta = Bound(tc)]
                   IN IF tc.name # ""
                      THEN _create_content_block_start(s, "tool_use", NoIdx)
                      ELSE s
              ELSE m1
    IN  IF ~m2.function_delta.bound
        THEN [m2 EXCEPT !.raised = TRUE]      \* UnboundLocalError
        ELSE LET args_chunk == m2.function_delta.arguments
             IN IF args_chunk # <<>>
                THEN [Yield(m2, _create_content_block_delta(
                                   m2.current_tool_block, "input_json_delta", args_chunk))
                        EXCEPT !.accumulated_tool_args = @ \o args_chunk]
                ELSE m2

RECURSIVE ToolCallsLoop(_, _)
ToolCallsLoop(m, tcs) ==
    IF tcs = <<>> \/ m.raised THEN m
    ELSE ToolCallsLoop(ToolCallDelta(m, Head(tcs)), Tail(tcs))

\* The legacy branch "elif delta.get('function_call')" (lines 516-547).
FunctionCallDelta(m, fc) ==
    IF fc.name = "" THEN m
    ELSE LET m1 == CloseOpenText(m)
             m2 == IF ~m1.tool_started
                   THEN _create_content_block_start(
                            [m1 EXCEPT !.tool_started = TRUE], "tool_use", NoIdx)
                   ELSE m1
         IN IF fc.arguments # <<>>
            THEN [Yield(m2, _create_content_block_delta(
                               m2.current_tool_block, "input_json_delta", fc.arguments))
                    EXCEPT !.accumulated_tool_args = @ \o fc.arguments]
            ELSE m2

\* The text branch (lines 549-564).
TextDelta(m, text_delta) ==
    IF text_delta = <<>> THEN m
    ELSE LET m1 == IF ~m.text_started
                   THEN _create_content_block_start(
                            [m EXCEPT !.text_started = TRUE], "text", NoIdx)
                   ELSE m
         IN [Yield(m1, _create_content_block_delta(
                          m1.current_text_block, "text_delta", text_delta))
               EXCEPT !.accumulated_text = @ \o text_delta]

\* One parsed delta: tool_calls first, else function_call, else text.
ProcessDelta(m, delta) ==
    IF delta.tool_calls # <<>> THEN ToolCallsLoop(m, delta.tool_calls)
    ELSE IF delta.function_call.present THEN FunctionCallDelta(m, delta.function_call)
    ELSE TextDelta(m, delta.content)

\* _create_rate_limit_error_stream: the delta's index is the literal 0.
_create_rate_limit_error_stream(m) ==
    LET m1 == _create_content_block_start(m, "text", NoIdx)
        m2 == Yield(m1, _create_content_block_delta(0, "text_delta", RateLimitText))
        m3 == Yield(m2, _create_content_block_stop(m2.current_text_block))
        m4 == Yield(m3, _create_message_delta("end_turn", 1))
        m5 == Yield(m4, _create_message_stop)
    IN Yield(m5, _create_done)


\* _process_non_streaming_response: the aggregation short path.
RECURSIVE AggregateToolCalls(_, _)
AggregateToolCalls(m, tcs) ==
    IF tcs = <<>> THEN m
    ELSE LET tool_call == Head(tcs)
             original_index == tool_call.index
             m1 == _create_content_block_start(m, "tool_use", original_index)
             m2 == IF tool_call.arguments # <<>>
                   THEN Yield(m1, _create_content_block_delta(
                                     original_index, "input_json_delta", tool_call.arguments))
                   ELSE m1
             m3 == Yield(m2, _create_content_block_stop(original_index))
         IN AggregateToolCalls(m3, Tail(tcs))

_process_non_streaming_response(m, response_data) ==
    IF response_data.no_choices
    THEN LET m1 == _create_content_block_start(m, "text", NoIdx)
             m2 == Yield(m1, _create_content_block_delta(0, "text_delta", InvalidFormatText))
             m3 == Yield(m2, _create_content_block_stop(m2.current_text_block))
             m4 == Yield(m3, _create_message_delta("end_turn", 1))
             m5 == Yield(m4, _create_message_stop)
         IN Yield(m5, _create_done)
    ELSE LET content == response_data.content
             tool_calls == response_data.tool_calls
             m1 == IF content # <<>>
                   THEN LET a == _create_content_block_start(m, "text", NoIdx)
                            b == Yield(a, _create_content_block_delta(0, "text_delta", content))
                        IN Yield(b, _create_content_block_stop(b.current_text_block))
                   ELSE m
             m2 == AggregateToolCalls(m1, tool_calls)
             output_tokens == IF response_data.completion_tokens = <<>> THEN 1
                              ELSE response_data.completion_tokens[1]
             stop_reason == IF response_data.finish_reason # NoFinish
                            THEN response_data.finish_reason
                            ELSE IF tool_calls # <<>> THEN "tool_use" ELSE "end_turn"
             m3 == Yield(m2, _create_message_delta(stop_reason, Max(1, output_tokens)))
             m4 == Yield(m3, _create_message_stop)
         IN Yield(m4, _create_done)

\* The closing step without its content_block_stop events.
ClosingWithoutStops(m) ==
    LET stop_reason == IF m.tool_started THEN "tool_use" ELSE "end_turn"
        m3 == Yield(m, _create_message_delta(stop_reason, 1))
        m4 == Yield(m3, _create_message_stop)
    IN Yield(m4, _create_done)

\* Step 3 and 4 of generate_fixed_sse_stream (lines 566-585).
Closing(m) ==
    LET m1 == IF m.text_started /\ ~m.text_finished
              THEN Yield(m, _create_content_block_stop(m.current_text_block))
              ELSE m
        m2 == IF m1.tool_started
              THEN Yield(m1, _create_content_block_stop(m1.current_tool_block))
              ELSE m1
        stop_reason == IF m.tool_started THEN "tool_use" ELSE "end_turn"
        output_tokens == SplitLen(m.accumulated_text)
                         + (SplitLen(m.accumulated_tool_args) \div 4)
        m3 == Yield(m2, _create_message_delta(stop_reason, Max(1, output_tokens)))
        m4 == Yield(m3, _create_message_stop)
    IN Yield(m4, _create_done)

\* The "except Exception" of generate_fixed_sse_stream (lines 587-598).
ExceptionPath(m) == Yield(Yield(m, stream_error_event), _create_done)

\* generate_rate_limit_sse of create_fixed_sse_generator (lines 624-631).
generate_rate_limit_sse(m) ==
    LET m0 == Yield(m, _create_message_start)
        m1 == _create_content_block_start(m0, "text", NoIdx)
        m2 == Yield(m1, _create_content_block_delta(0, "text_delta", RateLimitText))
        m3 == Yield(m2, _create_content_block_stop(0))
        m4 == Yield(m3, _create_message_delta("end_turn", 0))
        m5 == Yield(m4, _create_message_stop)
    IN Yield(m5, _create_done)

-----------------------------------------------------------------------------
(* The upstream: statuses and body lines *)

Statuses == {200, 429, 449, 500}

ToolIdx == {NoIdx, 0, 1}

ToolCall(i, n, a) == [index |-> i, name |-> n, arguments |-> a]

\* One entry of delta.tool_calls: a name alone, arguments alone, or both.
ToolCallDeltas ==
    {ToolCall(i, na[1], na[2]) :
        i \in ToolIdx \ {NoIdx},
        na \in {<<"f", <<>>>>, <<"", <<"a">>>>, <<"", <<"b">>>>, <<"f", <<"b">>>>}}
    \cup {ToolCall(NoIdx, "f", <<"b">>)}

NoFunctionCall == [present |-> FALSE, name |-> "", arguments |-> <<>>]
FunctionCall(n, a) == [present |-> TRUE, name |-> n, arguments |-> a]

Delta(tcs, fc, c) == [tool_calls |-> tcs, function_call |-> fc, content |-> c]

TextFragments == {<<"x">>, <<" ", "y">>}

\* The deltas of the data lines that are neither errors nor skipped.
Deltas ==
    {Delta(<<tc>>, NoFunctionCall, <<>>) : tc \in ToolCallDeltas}
    \cup {Delta(<<ToolCall(0, "f", <<"a">>), ToolCall(1, "f", <<"b">>)>>, NoFunctionCall, <<>>),
          Delta(<<ToolCall(0, "", <<"a">>), ToolCall(1, "", <<"b">>)>>, NoFunctionCall, <<>>)}
    \cup ({Delta(<<>>, FunctionCall(n, a), <<>>) : n \in {"", "g"}, a \in {<<>>, <<"a">>}}
            \ {Delta(<<>>, FunctionCall("", <<>>), <<>>)})
    \cup {Delta(<<>>, NoFunctionCall, t) : t \in TextFragments}

\* Lines the loop passes over with "continue".
SkipLines ==
    {"empty", "not_data", "not_data_rate_limit_other_status", "not_data_bad_json",
     "data_bad_json", "data_no_choices", "data_empty_delta"}

\* Lines that enter _create_rate_limit_error_stream.
RateLimitLines ==
    {"not_data_rate_limit", "not_data_rate_limit_unparseable",
     "not_data_json_error", "data_rate_limit"}

\* A data line with status and msg that is no rate limit: int(status) may raise.
ErrorLines == {"data_error_int_status", "data_error_bad_status"}

\* A single JSON object with choices and message, not prefixed with data:.
Response(nc, c, tcs, fr, ct) ==
    [no_choices |-> nc, content |-> c, tool_calls |-> tcs,
     finish_reason |-> fr, completion_tokens |-> ct]

Responses ==
    {Response(TRUE, <<>>, <<>>, NoFinish, <<>>)}
    \cup {Response(FALSE, c, tcs, fr, <<>>) :
            c \in {<<>>, <<"x">>},
            tcs \in {<<>>, <<ToolCall(0, "f", <<"{}">>)>>,
                     <<ToolCall(NoIdx, "f", <<"{}">>)>>,
                     <<ToolCall(0, "f", <<"{}">>), ToolCall(1, "g", <<>>)>>},
            fr \in {NoFinish, "stop", "tool_calls"}}
    \cup {Response(FALSE, <<"x">>, <<>>, "length", ct) : ct \in {<<0>>, <<2>>}}

-----------------------------------------------------------------------------
(* The non-streaming response converters *)

\* A text is a sequence of segments: plain words (dialect 0) or one well-formed
\* tool call written in one of the five tag dialects of _parse_tools_from_text.
\* A tool name is its sequence of dot-separated components.
Plain == [dialect |-> 0, name |-> <<>>]
Tag(d, n) == [dialect |-> d, name |-> n]

Last(q) == q[Len(q)]

\* What the regular expression of dialect d extracts from one segment:
\* <<>> when it does not match, else the one tool it yields.
\*   1: <function=NAME>...</function> also matches the dialect 2 text, whose
\*      function name is the literal execute; dotted prefixes are stripped.
\*   3: (\w+)\s*\( does not match a dotted name.
\*   5: the name is taken as written.
DialectMatch(d, seg) ==
    CASE d = 1 /\ seg.dialect = 1 -> <<[name |-> <<Last(seg.name)>>, dialect |-> 1]>>
      [] d = 1 /\ seg.dialect = 2 -> <<[name |-> <<"execute">>, dialect |-> 1]>>
      [] d = 2 /\ seg.dialect = 2 -> <<[name |-> <<Last(seg.name)>>, dialect |-> 2]>>
      [] d = 3 /\ seg.dialect = 3 /\ Len(seg.name) = 1 -> <<[name |-> seg.name, dialect |-> 3]>>
      [] d = 4 /\ seg.dialect = 4 -> <<[name |-> <<Last(seg.name)>>, dialect |-> 4]>>
      [] d = 5 /\ seg.dialect = 5 -> <<[name |-> seg.name, dialect |-> 5]>>
      [] OTHER -> <<>>

RECURSIVE DialectMatches(_, _)
DialectMatches(d, text) ==
    IF text = <<>> THEN <<>>
    ELSE DialectMatch(d, Head(text)) \o DialectMatches(d, Tail(text))

\* Every dialect's matches, one dialect after the other.
RECURSIVE ParseFromMixing(_, _)
ParseFromMixing(d, text) ==
    IF d > 5 THEN <<>>
    ELSE DialectMatches(d, text) \o ParseFromMixing(d + 1, text)

\* _parse_tools_from_text: the matches of the first pattern that has any.
RECURSIVE ParseFrom(_, _)
ParseFrom(d, text) ==
    IF d > 5 THEN <<>>
    ELSE IF DialectMatches(d, text) # <<>> THEN DialectMatches(d, text)
    ELSE ParseFrom(d + 1, text)

_parse_tools_from_text(text) == ParseFrom(1, text)

\* function.arguments strings, and json.loads on them.
ValidJson == {"{}", "{\"x\":1}"}
ArgumentStrings == ValidJson \cup {"{bad"}

Part(t, txt, i, n, inp) == [type |-> t, text |-> txt, id |-> i, name |-> n, input |-> inp]
TextPart(txt) == Part("text", txt, "", <<>>, "")
ToolUsePart(i, n, inp) == Part("tool_use", <<>>, i, n, inp)

Raised == [raised |-> TRUE, id |-> <<>>, content |-> <<>>, stop_reason |-> "",
           input_tokens |-> 0, output_tokens |-> 0]

\* stop_mapping.get(finish_reason, 'end_turn') / _convert_stop_reason
stop_mapping(finish_reason) ==
    CASE finish_reason = "stop" -> "end_turn"
      [] finish_reason = "length" -> "max_tokens"
      [] finish_reason = "tool_calls" -> "tool_use"
      [] finish_reason = "content_filter" -> "stop_sequence"
      [] OTHER -> "end_turn"

\* The tool_use parts of message.tool_calls; json.loads raises on invalid JSON.
AllArgumentsValid(tool_calls) ==
    \A k \in 1..Len(tool_calls) :
        tool_calls[k].arguments = Absent \/ tool_calls[k].arguments \in ValidJson

ToolUseParts(tool_calls) ==
    [k \in 1..Len(tool_calls) |->
        ToolUsePart(tool_calls[k].id, <<tool_calls[k].name>>,
                    IF tool_calls[k].arguments = Absent THEN "{}"
                    ELSE tool_calls[k].arguments)]

ExtractedParts(parsed_tools) ==
    [k \in 1..Len(parsed_tools) |-> ToolUsePart("toolu_<hex24>", parsed_tools[k].name, "{}")]

\* The last assignment of stop_reason in convert_response (converter.py:214-221,
\* converter_class.py:161-163): the mapped finish_reason, default 'stop'.
FinalStopReason(stop_reason_so_far, finish_reason) ==
    stop_mapping(IF finish_reason = NoFinish THEN "stop" ELSE finish_reason)

\* LiteConverter.convert_response (src/app/converter.py:150-223).
LiteConvertResponse(r) ==
    IF r.choices # "one" THEN Raised
    ELSE
    LET original_id == r.id
        response_id == IF original_id # <<>>
                       THEN <<"msg_">> \o SelectSeq(original_id, LAMBDA t : t # "chat-")
                       ELSE <<"msg_", "<hex12>">>
        tool_calls == IF r.tool_calls.present THEN r.tool_calls.list ELSE <<>>
        message_content == IF r.content # <<>> THEN r.content ELSE r.reasoning_content
        parsed_tools == _parse_tools_from_text(message_content)
        content == IF tool_calls # <<>> THEN ToolUseParts(tool_calls)
                   ELSE IF message_content = <<>> THEN <<>>
                   ELSE IF parsed_tools # <<>> THEN ExtractedParts(parsed_tools)
                   ELSE <<TextPart(message_content)>>
        stop_reason == IF tool_calls # <<>> \/ (message_content # <<>> /\ parsed_tools # <<>>)
                       THEN "tool_use" ELSE "end_turn"
    IN IF tool_calls # <<>> /\ ~AllArgumentsValid(tool_calls) THEN Raised
       ELSE [raised |-> FALSE, id |-> response_id, content |-> content,
             stop_reason |-> FinalStopReason(stop_reason, r.finish_reason),
             input_tokens |-> r.prompt_tokens, output_tokens |-> r.completion_tokens]

\* AnthropicToOpenAIConverter.convert_response (src/converter_class.py:106-165).
ClassConvertResponse(r) ==
    IF r.choices = Absent THEN Raised            \* _is_error_response
    ELSE IF r.choices = "empty"
    THEN [raised |-> FALSE, id |-> r.id, content |-> <<>>, stop_reason |-> "end_turn",
          input_tokens |-> r.prompt_tokens, output_tokens |-> r.completion_tokens]
    ELSE
    LET message_content == IF r.content # <<>> THEN r.content ELSE r.reasoning_content
        content == IF r.tool_calls.present THEN ToolUseParts(r.tool_calls.list)
                   ELSE IF message_content # <<>> THEN <<TextPart(message_content)>>
                   ELSE <<>>
        stop_reason == IF r.tool_calls.present THEN "tool_use" ELSE "end_turn"
    IN IF r.tool_calls.present /\ ~AllArgumentsValid(r.tool_calls.list) THEN Raised
       ELSE [raised |-> FALSE, id |-> r.id, content |-> content,
             stop_reason |-> FinalStopReason(stop_reason, r.finish_reason),
             input_tokens |-> r.prompt_tokens, output_tokens |-> r.completion_tokens]

\* Upstream responses.
Texts ==
    {<<>>, <<Plain>>, <<Tag(1, <<"ns", "f">>)>>, <<Plain, Tag(3, <<"f">>)>>,
     <<Tag(2, <<"f">>)>>, <<Tag(5, <<"ns", "f">>), Tag(4, <<"f">>), Tag(1, <<"g">>)>>,
     <<Tag(3, <<"ns", "f">>)>>}

UpstreamCall(i, n, a) == [id |-> i, name |-> n, arguments |-> a]

ToolCallLists ==
    {[present |-> FALSE, list |-> <<>>],
     [present |-> TRUE, list |-> <<>>],
     [present |-> TRUE, list |-> <<UpstreamCall("call_1", "f", "{}")>>],
     [present |-> TRUE, list |-> <<UpstreamCall("call_1", "f", "{bad"),
                                   UpstreamCall("call_2", "g", "{\"x\":1}")>>],
     [present |-> TRUE, list |-> <<UpstreamCall("call_1", "f", "{\"x\":1}"),
                                   UpstreamCall("call_2", "g", Absent)>>]}

UpstreamIds == {<<>>, <<"chat-">>, <<"chat-", "abc">>, <<"chatcmpl-", "9XyZ">>}

FinishReasons == {NoFinish, "stop", "length", "tool_calls", "content_filter", "other"}

OpenAIResponse(i, ch, c, rc, tcs, fr, pt, ct) ==
    [id |-> i, choices |-> ch, content |-> c, reasoning_content |-> rc,
     tool_calls |-> tcs, finish_reason |-> fr,
     prompt_tokens |-> pt, completion_tokens |-> ct]

OpenAIResponses ==
    {OpenAIResponse(i, ch, <<>>, <<>>, [present |-> FALSE, list |-> <<>>], NoFinish, 0, 0) :
        i \in UpstreamIds, ch \in {Absent, "empty"}}
    \cup {OpenAIResponse(i, "one", c, <<>>, tcs, fr, 3, 2) :
            i \in UpstreamIds, c \in Texts, tcs \in ToolCallLists, fr \in FinishReasons}
    \cup {OpenAIResponse(<<"chat-", "abc">>, "one", <<>>, <<Plain>>,
                         [present |-> FALSE, list |-> <<>>], fr, 0, 0) : fr \in FinishReasons}

NoResponse == OpenAIResponse(<<>>, Absent, <<>>, <<>>, [present |-> FALSE, list |-> <<>>],
                             NoFinish, 0, 0)

ConvIdle ==
    /\ conv_pc = "idle"
    /\ converter = "LiteConverter"
    /\ openai_response = NoResponse
    /\ anthropic_response = Raised
    /\ anthropic_request = <<>>

-----------------------------------------------------------------------------
(* The request coalescer (RequestDeduplicator) *)

\* request_deduplicator = RequestDeduplicator(cache_duration=300)
cache_duration == 300

Threads == 1..NumRequests

\* One message of a request: its role and its content parts.
Msg(role, parts) == [role |-> role, content |-> parts]
TextOf(t) == [type |-> "text", text |-> t]
ToolResult == [type |-> "tool_result", text |-> <<>>]

Request(m, msgs, st) == [model |-> m, messages |-> msgs, tools |-> Absent, stream |-> st]

MessageLists ==
    {<<Msg("user", <<TextOf(<<"a">>)>>)>>,
     <<Msg("user", <<TextOf(<<"b">>)>>)>>,
     <<Msg("user", <<TextOf(<<"a">>), ToolResult>>), Msg("assistant", <<TextOf(<<"z">>)>>)>>}

\* Every message list without streaming, and the first one with stream:true.
Requests ==
    {Request("m", msgs, FALSE) : msgs \in MessageLists}
        \cup {Request("m", <<Msg("user", <<TextOf(<<"a">>)>>)>>, TRUE)}

\* ''.join of the text parts of a content list.
RECURSIVE JoinText(_)
JoinText(parts) ==
    IF parts = <<>> THEN <<>>
    ELSE (IF Head(parts).type = "text" THEN Head(parts).text ELSE <<>>)
         \o JoinText(Tail(parts))

RECURSIVE ProcessedMessages(_)
ProcessedMessages(msgs) ==
    IF msgs = <<>> THEN <<>>
    ELSE (IF Head(msgs).role = "user"
          THEN <<[role |-> "user", content |-> JoinText(Head(msgs).content)]>>
          ELSE <<>>) \o ProcessedMessages(Tail(msgs))

\* _generate_request_hash: MD5 of the canonical JSON of the key fields; the
\* digest is modelled by the key fields themselves.
_generate_request_hash(request_data) ==
    [model |-> request_data.model,
     messages |-> ProcessedMessages(request_data.messages),
     tools |-> request_data.tools]

Fingerprints == {_generate_request_hash(r) : r \in Requests}

NoEntry == [present |-> FALSE, time |-> 0, response |-> 0]
Entry(t, r) == [present |-> TRUE, time |-> t, response |-> r]

NoResp == [status |-> 0, body |-> 0, kind |-> "", from_cache |-> FALSE]

\* A lookup that still serves an entry whose age equals the TTL.
IsFreshAtTTL(c, h, current_time) ==
    c[h].present /\ current_time - c[h].time <= cache_duration

\* A lookup that never finds a fresh entry.
IsFreshNever(c, h, current_time) == FALSE

\* is_duplicate_request, under the lock: is there an entry that has not expired.
IsFresh(c, h, current_time) ==
    c[h].present /\ current_time - c[h].time < cache_duration

\* ... and what it leaves in the cache: an expired entry is deleted.
AfterLookup(c, h, current_time) ==
    IF c[h].present /\ ~(current_time - c[h].time < cache_duration)
    THEN [c EXCEPT ![h] = NoEntry]
    ELSE c

\* cache_response, under the lock: store, then drop every expired entry.
cache_response(c, h, current_time, response) ==
    LET stored == [c EXCEPT ![h] = Entry(current_time, response)]
    IN [k \in DOMAIN stored |->
          IF stored[k].present /\ current_time - stored[k].time >= cache_duration
          THEN NoEntry ELSE stored[k]]

CoalIdle ==
    /\ cache = [h \in Fingerprints |-> NoEntry]
    /\ now = 0
    /\ ticks = 0
    /\ req_pc = [t \in Threads |-> "idle"]
    /\ req_data = [t \in Threads |-> Request("m", <<>>, FALSE)]
    /\ arrived = [t \in Threads |-> 0]
    /\ called = [t \in Threads |-> FALSE]
    /\ inflight = [t \in Threads |-> 0]
    /\ resp = [t \in Threads |-> NoResp]
    /\ upstream_calls = 0

-----------------------------------------------------------------------------
(* The HTTP handlers of /v1/messages and their calls of the upstream *)

\* handle_rate_limit_with_backoff(api_call_func, max_retries=3, ...)
max_retries == 3

\* The upstream callers of the repository: messages() of api_server.py, messages()
\* of app/server.py, and the handle_*_request functions of app/api/messages.py.
Handlers == {"api_server", "app.server", "app.api.messages"}

\* What one call of the upstream comes to: a response with a status and a body
\* text, or an exception of the HTTP client.
Outcome(k, s, b) == [kind |-> k, status |-> s, text |-> b]

NoOutcome == Outcome("none", 0, <<>>)

UpstreamStatuses == {200, 401, 429, 449, 500}

\* Body texts, as token sequences: with and without rate-limit markers.
BodyTexts == {<<"oops">>, <<"TPM">>, <<"tpm">>, <<"rate limit">>}

\* A 200 whose body converts, and one whose body has no choices.
UpstreamResponses ==
    {Outcome("response", 200, <<"ok">>), Outcome("response", 200, <<"no choices">>)}
        \cup {Outcome("response", s, b) : s \in UpstreamStatuses \ {200}, b \in BodyTexts}

UpstreamExceptions == {Outcome("network", 0, <<>>), Outcome("timeout", 0, <<>>)}

\* str.lower() on the tokens of a body text.
Lower(tok) == IF tok = "TPM" THEN "tpm" ELSE IF tok = "RPM" THEN "rpm" ELSE tok

\* substring in text
Contains(text, marker) == \E k \in 1..Len(text) : text[k] = marker

ContainsLowered(text, marker) == \E k \in 1..Len(text) : Lower(text[k]) = marker

rate_limit_indicators ==
    {"tpm", "rpm", "rate limit", "too many requests", "rate_limit_exceeded",
     "rate limited", "quota exceeded"}

\* Mutation: every answer other than 200 counts as a rate limit.
is_rate_limit_error_every_failure(response) == response.status # 200

is_rate_limit_error(response) ==
    \/ response.status = 429
    \/ \E indicator \in rate_limit_indicators : ContainsLowered(response.text, indicator)

\* random.uniform(0.1, 0.5), in tenths of a second.
Jitters == {1, 3, 5}

Min(a, b) == IF a <= b THEN a ELSE b

\* min(2 ** attempt + jitter, 30), in tenths of a second.
RateLimitWait(n, jitter) == Min(10 * (2 ^ n) + jitter, 300)

\* 2 ** attempt, in tenths of a second.
ExceptionWait(n) == 10 * (2 ^ n)

\* Mutation: the loop goes round once more.
MayRetryOnceMore(n) == n < max_retries + 1

\* The loop of handle_rate_limit_with_backoff goes on after a failed attempt.
MayRetry(n) == n < max_retries

\* @retry(max_attempts=3, delay=1) on handle_stream_request,
\* @retry(max_attempts=2, delay=0.5) on handle_non_stream_request.
max_attempts(stream) == IF stream THEN 3 ELSE 2

\* delay * (backoff ** (attempts - 1)), in tenths of a second, backoff = 2.
RetryWait(stream, n) == (IF stream THEN 10 ELSE 5) * (2 ^ (n - 1))

\* What the handler sends to the client.
Downstream(s, k, h, e) == [status |-> s, kind |-> k, headers |-> h, sse |-> e]

NoDownstream == Downstream(0, "", {}, FALSE)

\* jsonify(...) and Response(...) as the handlers call them set none of the
\* rate-limit headers.
NoRateLimitHeaders == {}

HandlerIdle ==
    /\ h_pc = "responded"
    /\ handler = "api_server"
    /\ client_wants_stream = FALSE
    /\ attempt = 0
    /\ attempts_made = 0
    /\ sleeps = <<>>
    /\ last_outcome = NoOutcome
    /\ downstream = NoDownstream

-----------------------------------------------------------------------------
(* Pacing: _add_delay, SimpleSSEOptimizer.optimize_stream and the text
   buffer of create_optimized_sse_generator *)

\* The bound on the events handed to a pacing wrapper; optimize_stream treats
\* the first nine events and the later ones differently.
MaxEvents == 11

\* The bound on the text chunks of one upstream stream.
MaxChunks == 3

PacingLayers == {"_add_delay", "optimize_stream", "sse_generator"}

\* The streams 1, 2, ..., n of distinct events.
EventStreams == {[k \in 1..n |-> k] : n \in 0..MaxEvents}

\* One upstream data line with a text delta: its content, one piece of text or
\* none, and whether choices[0].finish_reason is set.
Chunk(c, fr) == [content |-> c, finish_reason |-> fr]
Chunks == {Chunk(c, fr) : c \in {<<>>, <<"a">>, <<"b60">>}, fr \in BOOLEAN}

RECURSIVE ChunkStreams(_)
ChunkStreams(n) ==
    IF n = 0 THEN {<<>>}
    ELSE ChunkStreams(n - 1)
         \cup {Append(s, c) : s \in {q \in ChunkStreams(n - 1) : Len(q) = n - 1},
                              c \in Chunks}

\* len() of a text: the piece "b60" is sixty characters long, any other one.
RECURSIVE Chars(_)
Chars(text) ==
    IF text = <<>> THEN 0
    ELSE (IF Head(text) = "b60" THEN 60 ELSE 1) + Chars(Tail(text))

buffer_limit == 100
sleep_until_count == 10

Paced(events, n) == [events |-> events, sleeps |-> n]

\* A generator whose every yield is followed by self._add_delay().
RECURSIVE AddDelayLoop(_, _, _)
AddDelayLoop(enabled, events, acc) ==
    IF events = <<>> THEN acc
    ELSE AddDelayLoop(enabled, Tail(events),
                      Paced(Append(acc.events, Head(events)),
                            IF enabled THEN acc.sleeps + 1 ELSE acc.sleeps))

\* optimized_generator of optimize_stream: yield, then sleep while count < 10.
RECURSIVE OptimizedLoop(_, _, _)
OptimizedLoop(events, count, acc) ==
    IF events = <<>> THEN acc
    ELSE OptimizedLoop(Tail(events), count + 1,
                       Paced(Append(acc.events, Head(events)),
                             IF count + 1 < sleep_until_count
                             THEN acc.sleeps + 1 ELSE acc.sleeps))

optimize_stream(enabled, original_generator) ==
    IF ~enabled THEN Paced(original_generator, 0)
    ELSE OptimizedLoop(original_generator, 0, Paced(<<>>, 0))

\* The text branch of sse_generator in create_optimized_sse_generator: the
\* text is buffered and sent once the buffer is longer than 100 characters, or
\* with a chunk that carries a finish_reason; the events are the texts sent.
RECURSIVE BufferedTextLoop(_, _, _)
BufferedTextLoop(chunks, content_buffer, sent) ==
    IF chunks = <<>> THEN sent
    ELSE LET text_delta == Head(chunks).content
             appended == content_buffer \o text_delta
             full == text_delta # <<>> /\ Chars(appended) > buffer_limit
             buffer1 == IF full THEN <<>> ELSE appended
             sent1 == IF full THEN Append(sent, appended) ELSE sent
             sent2 == IF buffer1 # <<>> /\ Head(chunks).finish_reason
                      THEN Append(sent1, buffer1) ELSE sent1
         IN BufferedTextLoop(Tail(chunks), buffer1, sent2)

\* The text branch without the buffer (fixed_sse_generator.py, lines 549-565):
\* one text_delta per non-empty content.
RECURSIVE UnbufferedTextLoop(_, _)
UnbufferedTextLoop(chunks, sent) ==
    IF chunks = <<>> THEN sent
    ELSE UnbufferedTextLoop(Tail(chunks),
                            IF Head(chunks).content # <<>>
                            THEN Append(sent, Head(chunks).content) ELSE sent)

\* What a pacing layer emits for an input, with pacing on and with pacing off.
RunPaced(layer, enabled, input) ==
    CASE layer = "_add_delay" -> AddDelayLoop(enabled, input, Paced(<<>>, 0))
      [] layer = "optimize_stream" -> optimize_stream(enabled, input)
      [] layer = "sse_generator" ->
            IF enabled THEN Paced(BufferedTextLoop(input, <<>>, <<>>), 0)
            ELSE Paced(UnbufferedTextLoop(input, <<>>), 0)

PaceIdle ==
    /\ pace_pc = "returned"
    /\ pacing = "_add_delay"
    /\ enable_delay = FALSE
    /\ original = <<>>
    /\ paced = Paced(<<>>, 0)

-----------------------------------------------------------------------------
(* The utilities: CircuitBreaker, MemoryCache and the rate_limit decorator *)

\* The clock of one behaviour runs from 0 to MaxClock seconds.
MaxClock == 3

\* Calls of a utility in one behaviour.
MaxOps == 6

\* self.last_failure_time = None
NoTime == -1

\* CircuitBreaker(failure_threshold=3, recovery_timeout=1)
failure_threshold == 3
recovery_timeout == 1

\* A breaker that lets every call through.
RecoveredAtOnce(at, last) == TRUE

\* time.time() - self.last_failure_time > self.recovery_timeout
Recovered(at, last) == at - last > recovery_timeout

BreakerIdle ==
    /\ cb_pc = "idle"
    /\ state = "CLOSED"
    /\ failure_count = 0
    /\ last_failure_time = NoTime
    /\ cb_outcome = "none"
    /\ invoked = 0

\* MemoryCache(max_size, default_ttl): a small cache and one key more than fits.
max_size == 2
default_ttl == 300

Keys == 1..(max_size + 1)
Values == {"a", "b"}

\* set(key, value) and set(key, value, ttl=1)
TTLs == {default_ttl, 1}

\* An entry of self._cache; slot is its place in the dict's insertion order.
NoItem == [present |-> FALSE, value |-> "", last_accessed |-> 0, expires_at |-> 0, slot |-> 0]
Item(v, at, expires, n) ==
    [present |-> TRUE, value |-> v, last_accessed |-> at, expires_at |-> expires, slot |-> n]

InCache(c) == {k \in Keys : c[k].present}

\* An eviction that removes the most recently accessed entry.
EvictNewest(c) ==
    IF InCache(c) = {} THEN c
    ELSE LET key == CHOOSE k \in InCache(c) :
                        \A j \in InCache(c) :
                            \/ c[k].last_accessed > c[j].last_accessed
                            \/ /\ c[k].last_accessed = c[j].last_accessed
                               /\ c[k].slot >= c[j].slot
         IN [c EXCEPT ![key] = NoItem]

\* _evict_lru: min over the keys by last_accessed; of several keys with the
\* same last_accessed min returns the first in the dict's order.
_evict_lru(c) ==
    IF InCache(c) = {} THEN c
    ELSE LET lru_key == CHOOSE k \in InCache(c) :
                            \A j \in InCache(c) :
                                \/ c[k].last_accessed < c[j].last_accessed
                                \/ /\ c[k].last_accessed = c[j].last_accessed
                                   /\ c[k].slot <= c[j].slot
         IN [c EXCEPT ![lru_key] = NoItem]

\* MemoryCache.set at the time at; n numbers the insertions.
MemorySet(c, key, value, ttl, at, n) ==
    LET c1 == IF Cardinality(InCache(c)) >= max_size /\ ~c[key].present
              THEN _evict_lru(c) ELSE c
    IN [c1 EXCEPT ![key] = Item(value, at, at + ttl,
                                IF c[key].present THEN c[key].slot ELSE n)]

\* MemoryCache.get finds the key: it is there and has not expired.
IsHit(c, key, at) == c[key].present /\ ~(at > c[key].expires_at)

\* MemoryCache.get: what it returns, and what it leaves in the cache.
MemoryGet(c, key, at) ==
    IF IsHit(c, key, at)
    THEN [value |-> c[key].value,
          cache |-> [c EXCEPT ![key].last_accessed = at]]
    ELSE [value |-> "None", cache |-> [c EXCEPT ![key] = NoItem]]

CacheIdle ==
    /\ _cache = [k \in Keys |-> NoItem]
    /\ mc_result = "None"
    /\ evictions = 0

\* @rate_limit(calls, period), scaled down.
calls == 2
period == 2

LimiterIdle ==
    /\ call_times = <<>>
    /\ rl_pc = [t \in Threads |-> "idle"]
    /\ rl_time = [t \in Threads |-> 0]
    /\ kept = [t \in Threads |-> <<>>]
    /\ executions = <<>>

UtilIdle ==
    /\ clock = 0
    /\ ops = 0
    /\ BreakerIdle
    /\ CacheIdle
    /\ LimiterIdle

-----------------------------------------------------------------------------
(* The SSE generator as a state machine: one action per upstream frame *)

InitSSE ==
    /\ pc \in {"create", "generate"}
    /\ exit_path = ""
    /\ status_code \in Statuses
    /\ nread = 0
    /\ fed = <<>>
    /\ out = <<>>
    /\ next_block_index = 0
    /\ current_text_block = NoIdx
    /\ current_tool_block = NoIdx
    /\ text_started = FALSE
    /\ text_finished = FALSE
    /\ tool_started = FALSE
    /\ function_delta = Unbound
    /\ accumulated_text = <<>>
    /\ accumulated_tool_args = <<>>
    /\ upstream_body = "open"
    /\ ConvIdle
    /\ CoalIdle
    /\ HandlerIdle
    /\ PaceIdle
    /\ UtilIdle

Commit(m) ==
    /\ out' = m.out
    /\ next_block_index' = m.next_block_index
    /\ current_text_block' = m.current_text_block
    /\ current_tool_block' = m.current_tool_block
    /\ text_started' = m.text_started
    /\ text_finished' = m.text_finished
    /\ tool_started' = m.tool_started
    /\ function_delta' = m.function_delta
    /\ accumulated_text' = m.accumulated_text
    /\ accumulated_tool_args' = m.accumulated_tool_args
    /\ UNCHANGED <<varsConv, varsCoal, varsHandler, varsPace, varsUtil>>

\* What a way out of the generator leaves of the upstream body: reading it to
\* its end (the loop ran out of lines, or .json() / .text read all of it)
\* consumes it, an exception of iter_lines breaks it, and every other return
\* leaves it as it is; no path calls upstream_response.close().
BodyAfter(how) ==
    CASE how \in {"end_of_body", "create_rate_limit"} -> "consumed"
      [] how = "network_error" -> "broken"
      [] OTHER -> upstream_body

Finish(m, how) ==
    /\ Commit(m)
    /\ pc' = "done"
    /\ exit_path' = how
    /\ upstream_body' = BodyAfter(how)
    /\ UNCHANGED <<status_code, nread, fed>>

\* create_fixed_sse_generator: a 429/449 upstream gets its stream built here,
\* any other upstream is handed to generate_fixed_sse_stream.
create_fixed_sse_generator ==
    /\ pc = "create"
    /\ IF status_code \in {429, 449}
       THEN Finish(generate_rate_limit_sse(Frame), "create_rate_limit")
       ELSE /\ pc' = "generate"
            /\ UNCHANGED <<exit_path, status_code, nread, fed, out,
                           next_block_index, current_text_block, current_tool_block,
                           text_started, text_finished, tool_started, function_delta,
                           accumulated_text, accumulated_tool_args, upstream_body>>
            /\ UNCHANGED <<varsConv, varsCoal, varsHandler, varsPace, varsUtil>>

\* generate_fixed_sse_stream up to the loop: message_start, then the status check.
Start ==
    /\ pc = "generate"
    /\ LET m == Yield(Frame, _create_message_start)
       IN IF status_code = 200
          THEN /\ Commit(m)
               /\ pc' = "reading"
               /\ UNCHANGED <<exit_path, status_code, nread, fed, upstream_body>>
          ELSE IF status_code \in {429, 449}
          THEN Finish(_create_rate_limit_error_stream(m), "status_rate_limit")
          ELSE Finish(Yield(m, _create_error_response(status_code)), "status_error")

\* A loop in which an undecodable line ends the stream on the exception path.
ReadSkipRaises ==
    /\ pc = "reading"
    /\ nread < MaxLines
    /\ Commit(ExceptionPath(Frame))
    /\ pc' = "done"
    /\ exit_path' = "exception"
    /\ nread' = nread + 1
    /\ UNCHANGED <<status_code, fed, upstream_body>>

ReadSkip ==
    /\ pc = "reading"
    /\ nread < MaxLines
    /\ \E line \in SkipLines :
          /\ nread' = nread + 1
          /\ UNCHANGED <<pc, exit_path, status_code, fed, out,
                         next_block_index, current_text_block, current_tool_block,
                         text_started, text_finished, tool_started, function_delta,
                         accumulated_text, accumulated_tool_args, upstream_body>>
          /\ UNCHANGED <<varsConv, varsCoal, varsHandler, varsPace, varsUtil>>

\* A data line with choices: choice.delta, or choice.message taken as one delta.
ReadDelta ==
    /\ pc = "reading"
    /\ nread < MaxLines
    /\ \E delta \in Deltas :
          LET m == ProcessDelta(Frame, delta)
          IN IF m.raised
             THEN /\ Commit(ExceptionPath(m))
                  /\ pc' = "done"
                  /\ exit_path' = "exception"
                  /\ nread' = nread + 1
                  /\ fed' = Append(fed, delta)
                  /\ UNCHANGED <<status_code, upstream_body>>
             ELSE /\ Commit(m)
                  /\ nread' = nread + 1
                  /\ fed' = Append(fed, delta)
                  /\ UNCHANGED <<pc, exit_path, status_code, upstream_body>>

ReadDone ==
    /\ pc = "reading"
    /\ Finish(Closing(Frame), "done_line")

EndOfBody ==
    /\ pc = "reading"
    /\ Finish(Closing(Frame), "end_of_body")

ReadRateLimit ==
    /\ pc = "reading"
    /\ \E line \in RateLimitLines :
          Finish(_create_rate_limit_error_stream(Frame), line)

ReadError ==
    /\ pc = "reading"
    /\ \E line \in ErrorLines :
          IF line = "data_error_int_status"
          THEN Finish(Yield(Yield(Frame, _create_error_response(500)), _create_done), line)
          ELSE Finish(ExceptionPath(Frame), line)

ReadResponse ==
    /\ pc = "reading"
    /\ \E response_data \in Responses :
          Finish(_process_non_streaming_response(Frame, response_data), "aggregate")

\* iter_lines raises (connection reset, read timeout).
NetworkError ==
    /\ pc = "reading"
    /\ Finish(ExceptionPath(Frame), "network_error")

\* The downstream client goes away: the WSGI server closes the generator,
\* GeneratorExit is raised at the yield it is suspended at, and the "except
\* Exception" of the generator does not catch it.
ClientDisconnects ==
    /\ pc = "reading"
    /\ pc' = "aborted"
    /\ UNCHANGED <<exit_path, status_code, nread, fed, out,
                   next_block_index, current_text_block, current_tool_block,
                   text_started, text_finished, tool_started, function_delta,
                   accumulated_text, accumulated_tool_args, upstream_body>>
    /\ UNCHANGED <<varsConv, varsCoal, varsHandler, varsPace, varsUtil>>

NextSSE ==
    \/ create_fixed_sse_generator
    \/ Start
    \/ ReadSkip
    \/ ReadDelta
    \/ ReadDone
    \/ EndOfBody
    \/ ReadRateLimit
    \/ ReadError
    \/ ReadResponse
    \/ NetworkError
    \/ ClientDisconnects

SpecSSE == InitSSE /\ [][NextSSE]_vars

-----------------------------------------------------------------------------
(* The converters under test: one upstream response, one conversion *)

SSEIdle ==
    /\ pc = "done"
    /\ exit_path = ""
    /\ status_code = 200
    /\ nread = 0
    /\ fed = <<>>
    /\ out = <<>>
    /\ next_block_index = 0
    /\ current_text_block = NoIdx
    /\ current_tool_block = NoIdx
    /\ text_started = FALSE
    /\ text_finished = FALSE
    /\ tool_started = FALSE
    /\ function_delta = Unbound
    /\ accumulated_text = <<>>
    /\ accumulated_tool_args = <<>>
    /\ upstream_body = "closed"

InitConvert ==
    /\ conv_pc = "call"
    /\ converter \in {"LiteConverter", "AnthropicToOpenAIConverter"}
    /\ openai_response \in OpenAIResponses
    /\ anthropic_response = Raised
    /\ anthropic_request = <<>>
    /\ SSEIdle
    /\ CoalIdle
    /\ HandlerIdle
    /\ PaceIdle
    /\ UtilIdle

Return(result) ==
    /\ anthropic_response' = result
    /\ conv_pc' = IF result.raised THEN "raised" ELSE "returned"
    /\ UNCHANGED <<converter, openai_response, anthropic_request>>
    /\ UNCHANGED <<varsSSE, varsCoal, varsHandler, varsPace, varsUtil>>

LiteConvert ==
    /\ conv_pc = "call"
    /\ converter = "LiteConverter"
    /\ Return(LiteConvertResponse(openai_response))

ClassConvert ==
    /\ conv_pc = "call"
    /\ converter = "AnthropicToOpenAIConverter"
    /\ Return(ClassConvertResponse(openai_response))

NextConvert == LiteConvert \/ ClassConvert

SpecConvert == InitConvert /\ [][NextConvert]_vars

-----------------------------------------------------------------------------
(* A request with text parts, sent through the converter and an echo upstream *)

\* LiteConverter.convert_messages on one message whose content is a list:
\* with a tool_use or tool_result part an assistant message keeps its joined
\* text and a user message becomes a role=tool message; a message with text
\* parts only carries the concatenation of their texts.
convert_message(message) ==
    LET content == message.content
        openai_role == IF message.role = "assistant" THEN "assistant" ELSE "user"
        has_tool_calls ==
            \E k \in 1..Len(content) : content[k].type \in {"tool_use", "tool_result"}
    IN IF has_tool_calls /\ message.role = "user"
       THEN [role |-> "tool", content |-> <<>>]
       ELSE [role |-> openai_role, content |-> JoinText(content)]

convert_messages(anthropic_messages) ==
    [k \in 1..Len(anthropic_messages) |-> convert_message(anthropic_messages[k])]

\* An upstream that answers with the content of the last message it was sent.
Echo(openai_messages) ==
    OpenAIResponse(<<"chat-", "abc">>, "one", Last(openai_messages).content, <<>>,
                   [present |-> FALSE, list |-> <<>>], "stop", 3, 2)

\* Requests of one user message with one or two text parts.
TextRequests ==
    {<<Msg("user", <<TextOf(a)>>)>> : a \in Texts}
        \cup {<<Msg("user", <<TextOf(a), TextOf(b)>>)>> : a \in Texts, b \in Texts}

InitRoundTrip ==
    /\ conv_pc = "request"
    /\ converter = "LiteConverter"
    /\ anthropic_request \in TextRequests
    /\ openai_response = NoResponse
    /\ anthropic_response = Raised
    /\ SSEIdle
    /\ CoalIdle
    /\ HandlerIdle
    /\ PaceIdle
    /\ UtilIdle

\* convert_messages, and the echo upstream answers.
EchoUpstream ==
    /\ conv_pc = "request"
    /\ openai_response' = Echo(convert_messages(anthropic_request))
    /\ conv_pc' = "call"
    /\ UNCHANGED <<converter, anthropic_response, anthropic_request>>
    /\ UNCHANGED <<varsSSE, varsCoal, varsHandler, varsPace, varsUtil>>

NextRoundTrip == EchoUpstream \/ LiteConvert

SpecRoundTrip == InitRoundTrip /\ [][NextRoundTrip]_vars

-----------------------------------------------------------------------------
(* The /v1/messages handler of api_server.py, one thread per request *)

InitCoalescer ==
    /\ CoalIdle
    /\ SSEIdle
    /\ ConvIdle
    /\ HandlerIdle
    /\ PaceIdle
    /\ UtilIdle

\* messages() from the arrival of the request to the coalescer lookup: a hit
\* returns jsonify(cached_response).
Arrive(t) ==
    /\ req_pc[t] = "idle"
    /\ \A u \in Threads : u < t => req_pc[u] # "idle"    \* numbered as they arrive
    /\ \E request_data \in Requests :
          LET h == _generate_request_hash(request_data)
          IN /\ req_data' = [req_data EXCEPT ![t] = request_data]
             /\ arrived' = [arrived EXCEPT ![t] = now]
             /\ cache' = AfterLookup(cache, h, now)
             /\ IF IsFresh(cache, h, now)
                THEN /\ resp' = [resp EXCEPT ![t] =
                                   [status |-> 200, body |-> cache[h].response,
                                    kind |-> "message", from_cache |-> TRUE]]
                     /\ req_pc' = [req_pc EXCEPT ![t] = "done"]
                ELSE /\ req_pc' = [req_pc EXCEPT ![t] = "calling"]
                     /\ UNCHANGED resp
    /\ UNCHANGED <<now, ticks, called, inflight, upstream_calls>>
    /\ UNCHANGED <<varsSSE, varsConv, varsHandler, varsPace, varsUtil>>

\* make_api_call: http_session.post to the upstream.
CallUpstream(t) ==
    /\ req_pc[t] = "calling"
    /\ upstream_calls' = upstream_calls + 1
    /\ inflight' = [inflight EXCEPT ![t] = upstream_calls + 1]
    /\ called' = [called EXCEPT ![t] = TRUE]
    /\ req_pc' = [req_pc EXCEPT ![t] = "waiting"]
    /\ UNCHANGED <<cache, now, ticks, req_data, arrived, resp>>
    /\ UNCHANGED <<varsSSE, varsConv, varsHandler, varsPace, varsUtil>>

\* The upstream answers; a 200 is converted, stored and returned, anything else
\* is returned as an error.  The body of the n-th upstream answer is n: every
\* completion is fresh content.
UpstreamReturn(t) ==
    /\ req_pc[t] = "waiting"
    /\ \E status \in {200, 429, 500} :
          IF status = 200
          THEN /\ cache' = cache_response(cache, _generate_request_hash(req_data[t]),
                                          now, inflight[t])
               /\ resp' = [resp EXCEPT ![t] =
                             [status |-> 200, body |-> inflight[t],
                              kind |-> "message", from_cache |-> FALSE]]
          ELSE /\ resp' = [resp EXCEPT ![t] =
                             [status |-> status, body |-> 0,
                              kind |-> IF status = 429 THEN "rate_limit_error"
                                       ELSE "api_error",
                              from_cache |-> FALSE]]
               /\ UNCHANGED cache
    /\ req_pc' = [req_pc EXCEPT ![t] = "done"]
    /\ UNCHANGED <<now, ticks, req_data, arrived, called, inflight, upstream_calls>>
    /\ UNCHANGED <<varsSSE, varsConv, varsHandler, varsPace, varsUtil>>

\* Time passes, a second or a whole TTL, between the first arrival and the last
\* response.
Tick ==
    /\ ticks < MaxTicks
    /\ \E t \in Threads : req_pc[t] # "idle"
    /\ \E t \in Threads : req_pc[t] # "done"
    /\ \E d \in {1, cache_duration} : now' = now + d
    /\ ticks' = ticks + 1
    /\ UNCHANGED <<cache, req_pc, req_data, arrived, called, inflight, resp, upstream_calls>>
    /\ UNCHANGED <<varsSSE, varsConv, varsHandler, varsPace, varsUtil>>

NextCoalescer ==
    \/ \E t \in Threads : Arrive(t)
    \/ \E t \in Threads : CallUpstream(t)
    \/ \E t \in Threads : UpstreamReturn(t)
    \/ Tick

SpecCoalescer == InitCoalescer /\ [][NextCoalescer]_vars

-----------------------------------------------------------------------------
(* The handlers as a state machine: one action per upstream attempt *)

InitHandler ==
    /\ h_pc = "calling"
    /\ handler \in Handlers
    /\ client_wants_stream \in BOOLEAN
    /\ attempt = 0
    /\ attempts_made = 0
    /\ sleeps = <<>>
    /\ last_outcome = NoOutcome
    /\ downstream = NoDownstream
    /\ SSEIdle
    /\ ConvIdle
    /\ CoalIdle
    /\ PaceIdle
    /\ UtilIdle

HandlerFrame ==
    UNCHANGED <<handler, client_wants_stream, varsSSE, varsConv, varsCoal, varsPace, varsUtil>>

\* handle_rate_limit_with_backoff: the call answers with 200 or with something
\* that is no rate limit, and the response is returned.
AttemptReturns ==
    /\ handler = "api_server" /\ h_pc = "calling"
    /\ \E response \in UpstreamResponses :
          /\ response.status = 200 \/ ~is_rate_limit_error(response)
          /\ last_outcome' = response
    /\ attempts_made' = attempts_made + 1
    /\ h_pc' = "returned"
    /\ UNCHANGED <<attempt, sleeps, downstream>>
    /\ HandlerFrame

\* handle_rate_limit_with_backoff: the call answers with a rate limit; sleep and
\* go round again, or leave the loop and return the last response.
AttemptRateLimited ==
    /\ handler = "api_server" /\ h_pc = "calling"
    /\ \E response \in UpstreamResponses :
          /\ ~(response.status = 200 \/ ~is_rate_limit_error(response))
          /\ last_outcome' = response
    /\ attempts_made' = attempts_made + 1
    /\ IF MayRetry(attempt)
       THEN /\ \E jitter \in Jitters :
                  sleeps' = Append(sleeps, RateLimitWait(attempt, jitter))
            /\ attempt' = attempt + 1
            /\ UNCHANGED h_pc
       ELSE /\ h_pc' = "returned"
            /\ UNCHANGED <<attempt, sleeps>>
    /\ UNCHANGED downstream
    /\ HandlerFrame

\* handle_rate_limit_with_backoff: the call raises; sleep and go round again, or
\* re-raise on the last attempt.
AttemptRaises ==
    /\ handler = "api_server" /\ h_pc = "calling"
    /\ \E e \in UpstreamExceptions : last_outcome' = e
    /\ attempts_made' = attempts_made + 1
    /\ IF MayRetry(attempt)
       THEN /\ sleeps' = Append(sleeps, ExceptionWait(attempt))
            /\ attempt' = attempt + 1
            /\ UNCHANGED h_pc
       ELSE /\ h_pc' = "raised"
            /\ UNCHANGED <<attempt, sleeps>>
    /\ UNCHANGED downstream
    /\ HandlerFrame

\* convert_response raises on a body without choices.
Converts(response) == response.text = <<"ok">>

\* messages() of api_server.py after handle_rate_limit_with_backoff.
ApiServerResponse(outcome, raised) ==
    IF raised THEN Downstream(500, "conversion_error", NoRateLimitHeaders, FALSE)
    ELSE IF outcome.status = 200
    THEN IF Converts(outcome)
         THEN Downstream(200, "message", NoRateLimitHeaders, FALSE)
         ELSE Downstream(500, "conversion_error", NoRateLimitHeaders, FALSE)
    ELSE IF outcome.status = 429 \/ Contains(outcome.text, "TPM")
                                 \/ Contains(outcome.text, "RPM")
    THEN Downstream(429, "rate_limit_error", NoRateLimitHeaders, FALSE)
    ELSE Downstream(outcome.status, "api_error", NoRateLimitHeaders, FALSE)

ApiServerRespond ==
    /\ handler = "api_server" /\ h_pc \in {"returned", "raised"}
    /\ downstream' = ApiServerResponse(last_outcome, h_pc = "raised")
    /\ h_pc' = "responded"
    /\ UNCHANGED <<attempt, attempts_made, sleeps, last_outcome>>
    /\ HandlerFrame

\* messages() of app/server.py from the upstream call on: one call, no retry.
AppServerResponse(outcome, stream) ==
    IF outcome.kind # "response"
    THEN Downstream(502, "api_connection_error", NoRateLimitHeaders, FALSE)
    ELSE IF outcome.status # 200
    THEN IF stream
         THEN Downstream(200, "api_error", NoRateLimitHeaders, TRUE)
         ELSE Downstream(outcome.status, "api_error", NoRateLimitHeaders, FALSE)
    ELSE IF stream THEN Downstream(200, "message", NoRateLimitHeaders, TRUE)
    ELSE IF Converts(outcome) THEN Downstream(200, "message", NoRateLimitHeaders, FALSE)
    ELSE Downstream(500, "server_error", NoRateLimitHeaders, FALSE)

AppServerMessages ==
    /\ handler = "app.server" /\ h_pc = "calling"
    /\ \E outcome \in UpstreamResponses \cup UpstreamExceptions :
          /\ last_outcome' = outcome
          /\ downstream' = AppServerResponse(outcome, client_wants_stream)
    /\ attempts_made' = attempts_made + 1
    /\ h_pc' = "responded"
    /\ UNCHANGED <<attempt, sleeps>>
    /\ HandlerFrame

\* handle_stream_request / handle_non_stream_request of app/api/messages.py
\* return a response: upstream 200 on the streaming call.  Without streaming a
\* 200 is handed to converter.openai_to_anthropic, which LiteConverter does not
\* have, so the call raises ConversionError.
Succeeds(outcome, stream) ==
    outcome.kind = "response" /\ outcome.status = 200 /\ stream

\* The exception the call raises, as its status_code and error_code.
RaisedAs(outcome, stream) ==
    IF outcome.kind # "response"
    THEN IF stream THEN Downstream(500, "streaming_error", NoRateLimitHeaders, FALSE)
         ELSE Downstream(502, "upstream_error", NoRateLimitHeaders, FALSE)
    ELSE IF outcome.status = 200
    THEN Downstream(400, "conversion_error", NoRateLimitHeaders, FALSE)
    ELSE Downstream(502, "upstream_error", NoRateLimitHeaders, FALSE)

RetryAttemptReturns ==
    /\ handler = "app.api.messages" /\ h_pc = "calling"
    /\ \E outcome \in UpstreamResponses :
          /\ Succeeds(outcome, client_wants_stream)
          /\ last_outcome' = outcome
    /\ attempts_made' = attempts_made + 1
    /\ downstream' = Downstream(200, "message", NoRateLimitHeaders, TRUE)
    /\ h_pc' = "responded"
    /\ UNCHANGED <<attempt, sleeps>>
    /\ HandlerFrame

\* ... or raise, and the retry decorator sleeps and calls again, or re-raises
\* to the caller.
RetryAttemptRaises ==
    /\ handler = "app.api.messages" /\ h_pc = "calling"
    /\ \E outcome \in UpstreamResponses \cup UpstreamExceptions :
          /\ ~Succeeds(outcome, client_wants_stream)
          /\ last_outcome' = outcome
          /\ IF attempt + 1 >= max_attempts(client_wants_stream)
             THEN /\ h_pc' = "raised"
                  /\ downstream' = RaisedAs(outcome, client_wants_stream)
                  /\ UNCHANGED sleeps
             ELSE /\ sleeps' = Append(sleeps, RetryWait(client_wants_stream, attempt + 1))
                  /\ UNCHANGED <<h_pc, downstream>>
    /\ attempts_made' = attempts_made + 1
    /\ attempt' = attempt + 1
    /\ HandlerFrame

\* The handler has answered, or has raised to its caller.
HandlerDone ==
    \/ h_pc = "responded"
    \/ handler = "app.api.messages" /\ h_pc = "raised"

NextHandler ==
    \/ AttemptReturns
    \/ AttemptRateLimited
    \/ AttemptRaises
    \/ ApiServerRespond
    \/ AppServerMessages
    \/ RetryAttemptReturns
    \/ RetryAttemptRaises

SpecHandler == InitHandler /\ [][NextHandler]_vars

\* Every attempt and every sleep ends: a handler thread that can take a step
\* eventually takes one.
SpecHandlerFair == SpecHandler /\ WF_vars(NextHandler)

-----------------------------------------------------------------------------
(* Reading an emitted stream *)

IsStart(e) == e.type = "content_block_start"
IsDelta(e) == e.type = "content_block_delta"
IsStop(e)  == e.type = "content_block_stop"
IsBlockEvent(e) == IsStart(e) \/ IsDelta(e) \/ IsStop(e)

\* The automaton of
\*   message_start (content_block_start content_block_delta* content_block_stop)*
\*   message_delta message_stop [DONE]
\* over event types; "reject" is its dead state, "accept" its only final state.
GrammarStep(q, t) ==
    CASE q = "begin"   /\ t = "message_start"       -> "message"
      [] q = "message" /\ t = "content_block_start" -> "block"
      [] q = "message" /\ t = "message_delta"       -> "delta_sent"
      [] q = "block"   /\ t = "content_block_delta" -> "block"
      [] q = "block"   /\ t = "content_block_stop"  -> "message"
      [] q = "delta_sent" /\ t = "message_stop"     -> "stopped"
      [] q = "stopped" /\ t = "[DONE]"              -> "accept"
      [] OTHER -> "reject"

RECURSIVE GrammarRun(_, _)
GrammarRun(q, o) ==
    IF o = <<>> THEN q ELSE GrammarRun(GrammarStep(q, Head(o).type), Tail(o))

MatchesGrammar(o) == GrammarRun("begin", o) = "accept"

\* The last three events are message_delta, message_stop, [DONE].
ClosedTail(o) ==
    /\ Len(o) >= 3
    /\ o[Len(o) - 2].type = "message_delta"
    /\ o[Len(o) - 1].type = "message_stop"
    /\ o[Len(o)].type = "[DONE]"

StartsAt(o, i) == {p \in 1..Len(o) : IsStart(o[p]) /\ o[p].index = i}
StopsAt(o, i)  == {p \in 1..Len(o) : IsStop(o[p]) /\ o[p].index = i}
BlockIndices(o) == {o[p].index : p \in {q \in 1..Len(o) : IsBlockEvent(o[q])}}

HasToolUseStart(o) == \E p \in 1..Len(o) : IsStart(o[p]) /\ o[p].kind = "tool_use"

\* The partial_json values of the emitted input_json_delta events, in order.
RECURSIVE PartialJson(_)
PartialJson(o) ==
    IF o = <<>> THEN <<>>
    ELSE (IF IsDelta(Head(o)) /\ Head(o).kind = "input_json_delta"
          THEN <<Head(o).data>> ELSE <<>>) \o PartialJson(Tail(o))

\* The entries of delta.tool_calls of the consumed lines, flattened in arrival order.
RECURSIVE UpstreamToolCalls(_)
UpstreamToolCalls(f) ==
    IF f = <<>> THEN <<>> ELSE Head(f).tool_calls \o UpstreamToolCalls(Tail(f))

\* Their non-empty function.arguments fragments, in arrival order.
RECURSIVE Fragments(_)
Fragments(tcs) ==
    IF tcs = <<>> THEN <<>>
    ELSE (IF Head(tcs).arguments # <<>> THEN <<Head(tcs).arguments>> ELSE <<>>)
         \o Fragments(Tail(tcs))

OnlyToolCallDeltas(f) ==
    \A k \in 1..Len(f) : ~f[k].function_call.present

UpstreamErrorExits ==
    {"status_rate_limit", "status_error", "create_rate_limit", "data_rate_limit",
     "data_error_int_status", "data_error_bad_status", "network_error"}

NormalExits == {"done_line", "end_of_body"}

-----------------------------------------------------------------------------
(* Claims about the SSE generator *)

\* C1: whatever the upstream sent, the finished stream matches
\* message_start (content_block_start content_block_delta* content_block_stop)*
\* message_delta message_stop [DONE].
C1_StreamMatchesGrammar == pc = "done" => MatchesGrammar(out)

\* C2: a stream that ended on an upstream error (non-2xx status, error envelope
\* in a data line, network exception) carries the error in one text block that
\* is started and stopped, has every started block stopped, and ends with
\* message_delta, message_stop, [DONE].
C2_ErrorStreamCompleted ==
    (pc = "done" /\ exit_path \in UpstreamErrorExits) =>
        /\ ClosedTail(out)
        /\ \E p \in 1..Len(out) :
              /\ IsDelta(out[p]) /\ out[p].kind = "text_delta"
              /\ out[p].data = RateLimitText
              /\ \E a \in StartsAt(out, out[p].index) : a < p /\ out[a].kind = "text"
              /\ \E b \in StopsAt(out, out[p].index) : b > p
        /\ \A a \in 1..Len(out) :
              IsStart(out[a]) => \E b \in StopsAt(out, out[a].index) : b > a

\* C3: every content_block_delta with index i comes after the content_block_start
\* for i and before any content_block_stop for i, and its block is stopped in
\* the finished stream.
C3_DeltaInsideItsBlock ==
    \A p \in 1..Len(out) :
        IsDelta(out[p]) =>
            /\ \E a \in StartsAt(out, out[p].index) : a < p
            /\ \A b \in StopsAt(out, out[p].index) : b > p
            /\ (pc = "done" /\ ClosedTail(out)) => StopsAt(out, out[p].index) # {}

\* C4: in a finished stream every index that appears on a content_block_* event
\* appears on exactly one content_block_start and exactly one content_block_stop.
C4_IndexOpenedAndClosedOnce ==
    pc = "done" =>
        \A i \in BlockIndices(out) :
            /\ Cardinality(StartsAt(out, i)) = 1
            /\ Cardinality(StopsAt(out, i)) = 1

\* C5: the stop_reason of every message_delta is tool_use if a tool_use block
\* was started, and otherwise one of end_turn, max_tokens, stop_sequence.
C5_StopReasonCoherent ==
    \A p \in 1..Len(out) :
        out[p].type = "message_delta" =>
            IF HasToolUseStart(out)
            THEN out[p].kind = "tool_use"
            ELSE out[p].kind \in {"end_turn", "max_tokens", "stop_sequence"}

\* C7: on the streaming path the emitted input_json_delta events carry exactly
\* the non-empty function.arguments fragments of the upstream tool-call deltas,
\* one event per fragment, in arrival order.
C7_ArgumentsForwardedVerbatim ==
    (exit_path # "aggregate" /\ OnlyToolCallDeltas(fed)) =>
        PartialJson(out) = Fragments(UpstreamToolCalls(fed))

\* C8: a normally closed stream has one tool_use content_block_start per distinct
\* upstream tool call (distinguished by its upstream index), each emitted before
\* any input_json_delta.
C8_OneToolBlockPerToolCall ==
    LET tcs == UpstreamToolCalls(fed)
        distinct == {tcs[k].index : k \in 1..Len(tcs)}
        starts == {p \in 1..Len(out) : IsStart(out[p]) /\ out[p].kind = "tool_use"}
    IN (/\ pc = "done" /\ exit_path \in NormalExits
        /\ OnlyToolCallDeltas(fed)
        /\ NoIdx \notin distinct) =>
           /\ Cardinality(starts) = Cardinality(distinct)
           /\ \A p \in 1..Len(out) :
                 (IsDelta(out[p]) /\ out[p].kind = "input_json_delta") =>
                     \E a \in starts : a < p

-----------------------------------------------------------------------------
(* Claims about the response converters *)

HasToolUse(r) == \E k \in 1..Len(r.content) : r.content[k].type = "tool_use"

-----------------------------------------------------------------------------
(* Claims about the request coalescer *)

\* C9: of two answered non-streaming requests with the same fingerprint that
\* arrived within the TTL of each other, at most one invoked the upstream, and
\* both received the same body.
C9_DuplicateServedOnce ==
    \A t1 \in Threads : \A t2 \in Threads \ {t1} :
        (/\ req_pc[t1] = "done" /\ req_pc[t2] = "done"
         /\ ~req_data[t1].stream /\ ~req_data[t2].stream
         /\ _generate_request_hash(req_data[t1]) = _generate_request_hash(req_data[t2])
         /\ arrived[t1] <= arrived[t2]
         /\ arrived[t2] - arrived[t1] < cache_duration
         /\ resp[t1].status = 200 /\ resp[t2].status = 200) =>
            /\ ~(called[t1] /\ called[t2])
            /\ resp[t1].body = resp[t2].body

\* C10: a request with stream:true is never answered from the coalescer and
\* always makes its own upstream call.
C10_StreamNotCoalesced ==
    \A t \in Threads :
        (req_pc[t] = "done" /\ req_data[t].stream) =>
            ~resp[t].from_cache /\ called[t]

-----------------------------------------------------------------------------
(* Claims about the handlers and the retry loop *)

UpstreamAnswered == last_outcome.kind = "response"

\* C11: an upstream response with status 429 or 449 is answered with HTTP
\* status 429 and error kind rate_limit_error, streaming or not; 449 is never
\* passed on as it is.
C11_RateLimitStatusCollapsed ==
    (HandlerDone /\ UpstreamAnswered /\ last_outcome.status \in {429, 449}) =>
        downstream.status = 429 /\ downstream.kind = "rate_limit_error"

\* C12: when the client asked for streaming and the upstream answered with an
\* error status, the outer HTTP status of the answer is not 200.
C12_ErrorNotSentAs200 ==
    (HandlerDone /\ client_wants_stream /\ UpstreamAnswered /\ last_outcome.status # 200) =>
        downstream.status # 200

RateLimitHeaders ==
    {<<"retry-after", "60">>,
     <<"anthropic-ratelimit-requests-limit", "60">>,
     <<"anthropic-ratelimit-requests-remaining", "0">>}

\* C13: every answer with HTTP status 429 carries retry-after: 60 and the
\* anthropic-ratelimit-requests-limit / -remaining headers.
C13_RateLimitHeadersOn429 ==
    (HandlerDone /\ downstream.status = 429) => RateLimitHeaders \subseteq downstream.headers

\* C14: whatever the upstream does, one call makes at most max_retries + 1
\* upstream attempts with at most max_retries sleeps between them, and then
\* returns or raises.
C14_RetryBounded ==
    /\ [](attempts_made <= max_retries + 1 /\ Len(sleeps) <= max_retries)
    /\ <>HandlerDone

C14_Witness ==
    /\ HandlerDone
    /\ handler = "api_server"
    /\ attempts_made = max_retries + 1
    /\ Len(sleeps) = max_retries

\* C15: a network failure or a timeout of the upstream call is not retried: no
\* further attempt follows it, and it is surfaced with status 502 (network) or
\* 504 (timeout).
C15_FailuresSurfacedAtOnce ==
    (last_outcome.kind \in {"network", "timeout"}) =>
        /\ h_pc # "calling"
        /\ HandlerDone =>
              downstream.status = (IF last_outcome.kind = "network" THEN 502 ELSE 504)

\* A response that is neither a success nor a rate limit: not 200, not 429, and
\* no marker in the body.
PlainError(o) == o.kind = "response" /\ o.status \notin {200, 429} /\ o.text = <<"oops">>

-----------------------------------------------------------------------------
(* Claims about the closing step, the short path and block indices *)

\* The positions of the content_block_start events that have no
\* content_block_stop with their index after them.
LeftOpen(o) ==
    {a \in 1..Len(o) :
        IsStart(o[a]) /\ ~\E b \in StopsAt(o, o[a].index) : b > a}

C18_ShortPathStreamValid ==
    (pc = "done" /\ exit_path = "data_rate_limit") =>
        /\ MatchesGrammar(out)
        /\ \A p \in 1..Len(out) :
              IsDelta(out[p]) =>
                  /\ \E a \in StartsAt(out, out[p].index) : a < p
                  /\ \A b \in StopsAt(out, out[p].index) : b > p
        /\ ClosedTail(out)
        /\ out[Len(out) - 2].kind = "end_turn"

\* A delta that takes one of the two tool branches: a non-empty tool_calls
\* list, or a legacy function_call that names its function.
IsToolDelta(d) ==
    d.tool_calls # <<>> \/ (d.function_call.present /\ d.function_call.name # "")

C20_UpstreamToolIndexPreserved ==
    LET tcs == UpstreamToolCalls(fed)
        provided == {tcs[k].index : k \in 1..Len(tcs)}
        tool_indices ==
            {out[p].index : p \in {q \in 1..Len(out) :
                \/ IsStart(out[q]) /\ out[q].kind = "tool_use"
                \/ IsDelta(out[q]) /\ out[q].kind = "input_json_delta"
                \/ IsStop(out[q]) /\ ~\E a \in StartsAt(out, out[q].index) :
                                        out[a].kind = "text"}}
    IN (/\ exit_path \in NormalExits \cup {""}
        /\ OnlyToolCallDeltas(fed)
        /\ NoIdx \notin provided) =>
           /\ tool_indices \subseteq provided
           /\ \A p \in 1..Len(out) :
                 (IsStart(out[p]) /\ out[p].kind = "text") =>
                     \A a \in 1..(p - 1) :
                         IsStart(out[a]) => out[a].index # out[p].index

-----------------------------------------------------------------------------
(* Claims about coalescer hits, expiry and the lock *)

\* The lookup of thread t in this step found an entry for its fingerprint that
\* had not expired.
LookupHit(t) ==
    /\ req_pc[t] = "idle" /\ req_pc'[t] # "idle"
    /\ LET h == _generate_request_hash(req_data'[t])
       IN cache[h].present /\ now - cache[h].time < cache_duration

\* C21: a lookup that finds an unexpired entry for the request's fingerprint
\* answers with the stored response, unchanged, leaves the entry in the store
\* and makes no upstream call.
C21_HitServedFromStore ==
    [][\A t \in Threads :
          LookupHit(t) =>
             LET h == _generate_request_hash(req_data'[t])
             IN /\ req_pc'[t] = "done"
                /\ resp'[t].status = 200
                /\ resp'[t].body = cache[h].response
                /\ cache' = cache
                /\ upstream_calls' = upstream_calls
                /\ ~called'[t]]_vars

\* A request was answered from the store without an upstream call of its own.
C21_Witness ==
    \E t \in Threads :
        /\ req_pc[t] = "done" /\ resp[t].from_cache /\ ~called[t]
        /\ \E u \in Threads \ {t} : called[u] /\ resp[u].body = resp[t].body

\* The lookup of thread t in this step found an entry for its fingerprint whose
\* TTL had elapsed.
LookupExpired(t) ==
    /\ req_pc[t] = "idle" /\ req_pc'[t] # "idle"
    /\ LET h == _generate_request_hash(req_data'[t])
       IN cache[h].present /\ now - cache[h].time >= cache_duration

\* C22: a lookup made once the TTL has elapsed since the entry's timestamp does
\* not answer with the stored response and removes the entry from the store;
\* and no answer from the store is older than the TTL.
C22_ExpiredEntryDropped ==
    [][\A t \in Threads :
          /\ LookupExpired(t) =>
                LET h == _generate_request_hash(req_data'[t])
                IN /\ req_pc'[t] = "calling"
                   /\ resp'[t] = NoResp
                   /\ ~cache'[h].present
          /\ (req_pc[t] = "idle" /\ resp'[t].from_cache) =>
                LET h == _generate_request_hash(req_data'[t])
                IN now - cache[h].time < cache_duration]_vars

\* A request found the entry of an earlier, answered request expired: the entry
\* is gone and the request is about to call the upstream.
C22_Witness ==
    \E t \in Threads : \E u \in Threads \ {t} :
        /\ req_pc[u] = "done" /\ resp[u].status = 200 /\ ~resp[u].from_cache
        /\ req_pc[t] = "calling"
        /\ _generate_request_hash(req_data[t]) = _generate_request_hash(req_data[u])
        /\ arrived[t] - arrived[u] >= cache_duration
        /\ ~cache[_generate_request_hash(req_data[t])].present
        /\ \A v \in Threads \ {t, u} : req_pc[v] = "idle"

-----------------------------------------------------------------------------
(* The coalescer with its lock: is_duplicate_request and cache_response taken
   apart into the steps before, inside and after "with self.lock" *)

\* The threads inside a "with self.lock" block.
LockHolders ==
    {t \in Threads : req_pc[t] \in {"lookup_locked", "lookup_logging", "store_locked"}}

LockFrame == UNCHANGED <<varsSSE, varsConv, varsHandler, varsPace, varsUtil>>

\* messages() up to the lock of is_duplicate_request: the fingerprint is
\* computed and time.time() is read before the lock is requested.
ReceiveRequest(t) ==
    /\ req_pc[t] = "idle"
    /\ \A u \in Threads : u < t => req_pc[u] # "idle"
    /\ \E request_data \in Requests :
          req_data' = [req_data EXCEPT ![t] = request_data]
    /\ arrived' = [arrived EXCEPT ![t] = now]
    /\ req_pc' = [req_pc EXCEPT ![t] = "lookup_wait"]
    /\ UNCHANGED <<cache, now, ticks, called, inflight, resp, upstream_calls>>
    /\ LockFrame

\* "with self.lock:" of either method: entered when no thread is inside.
AcquireLock(t) ==
    /\ req_pc[t] \in {"lookup_wait", "store_wait"}
    /\ LockHolders = {}
    /\ req_pc' = [req_pc EXCEPT ![t] = IF req_pc[t] = "lookup_wait"
                                       THEN "lookup_locked" ELSE "store_locked"]
    /\ UNCHANGED <<cache, now, ticks, req_data, arrived, called, inflight, resp,
                   upstream_calls>>
    /\ LockFrame

\* The body of the lock in is_duplicate_request up to its logger call: an
\* absent entry leaves the lock at once, a fresh one is taken, an expired one
\* is deleted, and both of those go on to log inside the lock.
LookupUnderLock(t) ==
    /\ req_pc[t] = "lookup_locked"
    /\ LET h == _generate_request_hash(req_data[t])
           current_time == arrived[t]
       IN /\ cache' = AfterLookup(cache, h, current_time)
          /\ IF IsFresh(cache, h, current_time)
             THEN resp' = [resp EXCEPT ![t] =
                             [status |-> 200, body |-> cache[h].response,
                              kind |-> "message", from_cache |-> TRUE]]
             ELSE UNCHANGED resp
          /\ req_pc' = [req_pc EXCEPT ![t] = IF cache[h].present
                                             THEN "lookup_logging" ELSE "calling"]
    /\ UNCHANGED <<now, ticks, req_data, arrived, called, inflight, upstream_calls>>
    /\ LockFrame

\* logger.info / logger.debug inside the lock (a record written to the log file
\* and the console), then the lock is left: a hit goes on to jsonify, a deleted
\* entry to the upstream call.
LogUnderLock(t) ==
    /\ req_pc[t] = "lookup_logging"
    /\ req_pc' = [req_pc EXCEPT ![t] = IF resp[t].from_cache
                                       THEN "writing" ELSE "calling"]
    /\ UNCHANGED <<cache, now, ticks, req_data, arrived, called, inflight, resp,
                   upstream_calls>>
    /\ LockFrame

\* The upstream answers: a 200 is converted and goes to cache_response, any
\* other status goes straight to the error answer.
UpstreamAnswers(t) ==
    /\ req_pc[t] = "waiting"
    /\ \E status \in {200, 429, 500} :
          IF status = 200
          THEN /\ resp' = [resp EXCEPT ![t] =
                             [status |-> 200, body |-> inflight[t],
                              kind |-> "message", from_cache |-> FALSE]]
               /\ req_pc' = [req_pc EXCEPT ![t] = "store_wait"]
          ELSE /\ resp' = [resp EXCEPT ![t] =
                             [status |-> status, body |-> 0,
                              kind |-> IF status = 429 THEN "rate_limit_error"
                                       ELSE "api_error",
                              from_cache |-> FALSE]]
               /\ req_pc' = [req_pc EXCEPT ![t] = "writing"]
    /\ UNCHANGED <<cache, now, ticks, req_data, arrived, called, inflight,
                   upstream_calls>>
    /\ LockFrame

\* The body of the lock in cache_response: store, drop the expired entries,
\* leave the lock.
StoreUnderLock(t) ==
    /\ req_pc[t] = "store_locked"
    /\ cache' = cache_response(cache, _generate_request_hash(req_data[t]),
                               now, resp[t].body)
    /\ req_pc' = [req_pc EXCEPT ![t] = "writing"]
    /\ UNCHANGED <<now, ticks, req_data, arrived, called, inflight, resp,
                   upstream_calls>>
    /\ LockFrame

\* return jsonify(...): the answer is written to the client.
WriteResponse(t) ==
    /\ req_pc[t] = "writing"
    /\ req_pc' = [req_pc EXCEPT ![t] = "done"]
    /\ UNCHANGED <<cache, now, ticks, req_data, arrived, called, inflight, resp,
                   upstream_calls>>
    /\ LockFrame

NextMutex ==
    \/ \E t \in Threads : ReceiveRequest(t)
    \/ \E t \in Threads : AcquireLock(t)
    \/ \E t \in Threads : LookupUnderLock(t)
    \/ \E t \in Threads : LogUnderLock(t)
    \/ \E t \in Threads : CallUpstream(t)
    \/ \E t \in Threads : UpstreamAnswers(t)
    \/ \E t \in Threads : StoreUnderLock(t)
    \/ \E t \in Threads : WriteResponse(t)
    \/ Tick

SpecMutex == InitCoalescer /\ [][NextMutex]_vars

\* A thread is doing I/O: writing a log record, waiting for the upstream call
\* it made, or writing its answer.
DoingIO(t) == req_pc[t] \in {"lookup_logging", "waiting", "writing"}

\* C23: no thread does I/O while it holds the coalescer lock: inside the lock
\* there are only reads and writes of the map, and the lock is left before the
\* upstream call and before the answer is written.
C23_NoIOUnderLock ==
    /\ Cardinality(LockHolders) <= 1
    /\ \A t \in LockHolders : ~DoingIO(t)

-----------------------------------------------------------------------------
(* Claims about the upstream body, pacing and discarded lines *)

\* C24: whenever the generator has terminated, by normal completion, on an
\* error path, or because the downstream client disconnected, the upstream
\* HTTP body is no longer open: it was closed, read to its end, or broken.
C24_UpstreamBodyClosed ==
    pc \in {"done", "aborted"} => upstream_body \in {"closed", "consumed", "broken"}

\* The pacing layers as calls: a layer is handed an input and emits events.
\* For sse_generator "off" stands for the generator without the text buffer.
InitPacing ==
    /\ pace_pc = "call"
    /\ pacing \in PacingLayers
    /\ enable_delay \in BOOLEAN
    /\ original \in (IF pacing = "sse_generator"
                     THEN ChunkStreams(MaxChunks) ELSE EventStreams)
    /\ paced = Paced(<<>>, 0)
    /\ SSEIdle
    /\ ConvIdle
    /\ CoalIdle
    /\ HandlerIdle
    /\ UtilIdle

Pace(layer) ==
    /\ pace_pc = "call"
    /\ pacing = layer
    /\ paced' = RunPaced(layer, enable_delay, original)
    /\ pace_pc' = "returned"
    /\ UNCHANGED <<pacing, enable_delay, original>>
    /\ UNCHANGED <<varsSSE, varsConv, varsCoal, varsHandler, varsUtil>>

NextPacing == \E layer \in PacingLayers : Pace(layer)

SpecPacing == InitPacing /\ [][NextPacing]_vars

\* C25: pacing only throttles: for the same upstream input the events emitted
\* with pacing switched on are the events emitted with pacing switched off,
\* the same events in the same order and number.
C25_PacingOnlyThrottles ==
    pace_pc = "returned" =>
        paced.events = RunPaced(pacing, FALSE, original).events

\* A line was consumed that is not a delta line and did not end the stream: a
\* line the loop passes over, such as a data line whose payload json.loads
\* rejects.
LineDiscarded == pc = "reading" /\ nread' = nread + 1 /\ fed' = fed

\* C26: a data line whose payload cannot be decoded as JSON is discarded and
\* the loop goes on: consuming it emits no event and changes nothing of the
\* generator's state, so the stream is the one produced without that line.
C26_UndecodableLineDiscarded ==
    [][LineDiscarded =>
          /\ pc' = "reading"
          /\ out' = out
          /\ UNCHANGED <<exit_path, next_block_index, current_text_block,
                         current_tool_block, text_started, text_finished,
                         tool_started, function_delta, accumulated_text,
                         accumulated_tool_args, upstream_body>>]_vars

\* A stream closed on [DONE] after a text delta and a discarded line.
C26_Witness ==
    /\ pc = "done" /\ exit_path = "done_line"
    /\ nread = Len(fed) + 1
    /\ \E k \in 1..Len(fed) : fed[k].content # <<>>
    /\ \E p \in 1..Len(out) : IsDelta(out[p]) /\ out[p].kind = "text_delta"

-----------------------------------------------------------------------------
(* Claims about the content, the usage and the id of a response *)

\* C27: the content of a converted response is never empty: it has at least
\* one text part or one tool_use part, also when the upstream message has null
\* or empty content and no tool calls.
C27_ContentNeverEmpty ==
    conv_pc = "returned" => anthropic_response.content # <<>>

\* C28: every message_delta event, on the normal close, the aggregation short
\* path and the rate-limit short paths, carries usage.output_tokens of at
\* least 1.
C28_OutputTokensAtLeastOne ==
    \A p \in 1..Len(out) :
        out[p].type = "message_delta" => out[p].tokens >= 1

\* A run of hexadecimal digits.
IsHex(tok) == tok \in {"abc", "<hex12>", "<hex24>"}

\* ^msg_[a-f0-9]{1,}$
MatchesMsgId(id) ==
    /\ Len(id) >= 2
    /\ id[1] = "msg_"
    /\ \A k \in 2..Len(id) : IsHex(id[k])

\* C29: every converted response carries a non-empty id that matches
\* ^msg_[a-f0-9]{1,}$, whatever id the upstream supplied.
C29_ResponseIdWellFormed ==
    conv_pc = "returned" => MatchesMsgId(anthropic_response.id)

\* C30: an upstream id that is missing, empty or exactly chat- gives a freshly
\* generated msg_ followed by 24 hexadecimal characters; an upstream id chat-X
\* gives msg_X.
C30_ResponseIdNormalised ==
    conv_pc = "returned" =>
        IF openai_response.id \in {<<>>, <<"chat-">>}
        THEN anthropic_response.id = <<"msg_", "<hex24>">>
        ELSE Head(openai_response.id) = "chat-" =>
                anthropic_response.id = <<"msg_">> \o Tail(openai_response.id)

-----------------------------------------------------------------------------
(* Claims about unparseable tool arguments and the text round trip *)

\* C31: when the arguments of an upstream tool call are not parseable as JSON
\* the conversion still returns: no exception reaches the caller, the part
\* of that call has input {}, and every tool call is emitted, in order.
C31_UnparseableArgumentsTolerated ==
    LET tool_calls == openai_response.tool_calls.list
    IN (/\ conv_pc # "call"
        /\ openai_response.choices = "one"
        /\ openai_response.tool_calls.present
        /\ tool_calls # <<>>)
       => /\ conv_pc = "returned"
          /\ anthropic_response.content =
                [k \in 1..Len(tool_calls) |->
                    ToolUsePart(tool_calls[k].id, <<tool_calls[k].name>>,
                                IF tool_calls[k].arguments \in ValidJson
                                THEN tool_calls[k].arguments ELSE "{}")]


\* The text that LiteConverter.convert_response looks at when the upstream
\* message carries no tool calls.
MessageText(r) == IF r.content # <<>> THEN r.content ELSE r.reasoning_content

TextPath ==
    /\ conv_pc = "returned"
    /\ converter = "LiteConverter"
    /\ ~(openai_response.tool_calls.present /\ openai_response.tool_calls.list # <<>>)
    /\ MessageText(openai_response) # <<>>

\* The dialects that yield at least one tool call from the text.
DialectsIn(text) == {d \in 1..5 : DialectMatches(d, text) # <<>>}

Lowest(S) == CHOOSE d \in S : \A e \in S : d <= e

\* C35: the tool-text extractor is first-match-wins: the tool_use parts of a
\* text are exactly the matches of the lowest-numbered dialect that has a
\* match, never a mixture of dialects, and a text in which no dialect
\* matches stands as one plain text part.
C35_FirstMatchWins ==
    TextPath =>
        LET text == MessageText(openai_response)
        IN IF DialectsIn(text) = {}
           THEN anthropic_response.content = <<TextPart(text)>>
           ELSE anthropic_response.content =
                    ExtractedParts(DialectMatches(Lowest(DialectsIn(text)), text))

\* A text with tool calls in the dialects 5, 4 and 1 gave the dialect 1 call only.
C35_Witness ==
    /\ TextPath
    /\ Cardinality(DialectsIn(MessageText(openai_response))) >= 2
    /\ Len(anthropic_response.content) = 1
    /\ anthropic_response.content[1].type = "tool_use"
    /\ anthropic_response.content[1].name = <<"g">>

-----------------------------------------------------------------------------
(* Claims about error kinds, backoff sleeps and what the coalescer stores *)

ErrorKinds ==
    {"invalid_request_error", "authentication_error", "rate_limit_error", "api_error",
     "conversion_error", "streaming_error", "server_error"}

\* C33: every failure that a handler surfaces, as an error answer or as a
\* raised exception, carries exactly one error kind, and that kind is one of
\* invalid_request_error, authentication_error, rate_limit_error, api_error,
\* conversion_error, streaming_error, server_error.
C33_ErrorKindsClosed ==
    (downstream # NoDownstream /\ downstream.kind # "message")
        => downstream.kind \in ErrorKinds


\* C34: the sleep before the k-th retry of handle_rate_limit_with_backoff is
\* min(2^(k-1) + u, 30) seconds with u in [0.1, 0.5]: it lies between
\* min(2^(k-1) + 0.1, 30) and min(2^(k-1) + 0.5, 30) seconds and never
\* exceeds 30 seconds (sleeps are in tenths of a second).
C34_BackoffSleepBounds ==
    handler = "api_server" =>
        \A k \in 1..Len(sleeps) :
            /\ sleeps[k] >= Min(10 * (2 ^ (k - 1)) + 1, 300)
            /\ sleeps[k] <= Min(10 * (2 ^ (k - 1)) + 5, 300)
            /\ sleeps[k] <= 300

-----------------------------------------------------------------------------
(* Claims about the block index of the rate-limit short path *)

\* The text that the rate-limit short path sends in its one text block.
IsRateLimitDelta(e) == e.type = "content_block_delta" /\ e.data = RateLimitText

\* C38: in the rate-limit short path the content_block_delta and the
\* content_block_stop carry the index of the content_block_start that the
\* short path emitted, also after other blocks were opened in the stream.
C38_ShortPathIndexCoherent ==
    \A p \in 2..(Len(out) - 1) :
        (IsRateLimitDelta(out[p]) /\ IsStart(out[p - 1]) /\ IsStop(out[p + 1]))
            => /\ out[p].index = out[p - 1].index
               /\ out[p + 1].index = out[p - 1].index

-----------------------------------------------------------------------------
(* Claims about what the coalescer stores *)

\* A response that is stored whatever the upstream status was.
AnswerStoringErrors(t) ==
    /\ req_pc[t] = "waiting"
    /\ \E status \in {200, 429, 500}, converts \in BOOLEAN :
          /\ cache' = cache_response(cache, _generate_request_hash(req_data[t]),
                                     now, inflight[t])
          /\ resp' = [resp EXCEPT ![t] =
                        IF status = 200 /\ converts
                        THEN [status |-> 200, body |-> inflight[t],
                              kind |-> "message", from_cache |-> FALSE]
                        ELSE [status |-> IF status = 200 THEN 500 ELSE status,
                              body |-> 0,
                              kind |-> IF status = 200 THEN "conversion_error"
                                       ELSE IF status = 429 THEN "rate_limit_error"
                                       ELSE "api_error",
                              from_cache |-> FALSE]]
    /\ req_pc' = [req_pc EXCEPT ![t] = "done"]
    /\ UNCHANGED <<now, ticks, req_data, arrived, called, inflight, upstream_calls>>
    /\ UNCHANGED <<varsSSE, varsConv, varsHandler, varsPace, varsUtil>>

\* messages() of api_server.py after handle_rate_limit_with_backoff has
\* returned: a 200 is converted, stored with cache_response and returned; a
\* conversion that raises is answered by the except clause with 500
\* conversion_error; any other status is answered as rate_limit_error or
\* api_error.  Neither error answer goes through cache_response.
Answer(t) ==
    /\ req_pc[t] = "waiting"
    /\ \E status \in {200, 429, 500}, converts \in BOOLEAN :
          IF status = 200 /\ converts
          THEN /\ cache' = cache_response(cache, _generate_request_hash(req_data[t]),
                                          now, inflight[t])
               /\ resp' = [resp EXCEPT ![t] =
                             [status |-> 200, body |-> inflight[t],
                              kind |-> "message", from_cache |-> FALSE]]
          ELSE /\ resp' = [resp EXCEPT ![t] =
                             [status |-> IF status = 200 THEN 500 ELSE status,
                              body |-> 0,
                              kind |-> IF status = 200 THEN "conversion_error"
                                       ELSE IF status = 429 THEN "rate_limit_error"
                                       ELSE "api_error",
                              from_cache |-> FALSE]]
               /\ UNCHANGED cache
    /\ req_pc' = [req_pc EXCEPT ![t] = "done"]
    /\ UNCHANGED <<now, ticks, req_data, arrived, called, inflight, upstream_calls>>
    /\ UNCHANGED <<varsSSE, varsConv, varsHandler, varsPace, varsUtil>>

NextStore ==
    \/ \E t \in Threads : Arrive(t)
    \/ \E t \in Threads : CallUpstream(t)
    \/ \E t \in Threads : Answer(t)
    \/ Tick

SpecStore == InitCoalescer /\ [][NextStore]_vars

\* Thread t gets its answer from the upstream call in this step.
Answered(t) == req_pc[t] = "waiting" /\ req_pc'[t] = "done"

\* C39: only successfully converted responses to an upstream status 200 are
\* stored in the coalescer: a step that ends in an error (rate limit, other
\* upstream status, conversion exception) leaves the store as it is, every
\* new entry is the body of a converted 200 answer of this step, and what
\* is served from the store is never an error.
C39_OnlySuccessStored ==
    [][/\ \A t \in Threads :
             /\ (Answered(t) /\ resp'[t].status # 200) => cache' = cache
             /\ (resp'[t] # resp[t] /\ resp'[t].from_cache)
                    => resp'[t].status = 200 /\ resp'[t].kind = "message"
       /\ \A h \in Fingerprints :
             (cache'[h].present /\ cache'[h] # cache[h])
                 => \E t \in Threads :
                       /\ Answered(t)
                       /\ h = _generate_request_hash(req_data[t])
                       /\ resp'[t].status = 200 /\ resp'[t].kind = "message"
                       /\ cache'[h].response = resp'[t].body]_vars

\* A conversion error, nothing stored, and an identical request that went to
\* the upstream.
C39_Witness ==
    /\ req_pc[1] = "done" /\ resp[1].kind = "conversion_error"
    /\ req_data[2] = req_data[1]
    /\ called[2]
    /\ ~cache[_generate_request_hash(req_data[1])].present

-----------------------------------------------------------------------------
(* Claims about the text round trip *)

\* C32: for a request with text parts only, translating it to the upstream
\* format, answering with an echo of its content and translating the answer
\* back gives a response whose concatenated text is the original user text,
\* also for a text that looks like a tool call in one of the tag dialects.
C32_TextRoundTrip ==
    (conv_pc \in {"returned", "raised"} /\ anthropic_request # <<>>)
        => /\ conv_pc = "returned"
           /\ JoinText(anthropic_response.content)
                 = JoinText(Last(anthropic_request).content)

-----------------------------------------------------------------------------
(* The circuit breaker around a function that may fail *)

InitBreaker ==
    /\ clock = 0
    /\ ops = 0
    /\ BreakerIdle
    /\ CacheIdle
    /\ LimiterIdle
    /\ SSEIdle
    /\ ConvIdle
    /\ CoalIdle
    /\ HandlerIdle
    /\ PaceIdle

\* wrapper, up to the call of func: an OPEN breaker rejects the call, or
\* becomes HALF_OPEN when the recovery time is over.
EnterBreaker ==
    /\ cb_pc = "idle"
    /\ ops < MaxOps
    /\ ops' = ops + 1
    /\ IF state = "OPEN" /\ ~Recovered(clock, last_failure_time)
       THEN /\ cb_outcome' = "rejected"         \* raise Exception("Circuit breaker is OPEN")
            /\ UNCHANGED <<cb_pc, state, invoked>>
       ELSE /\ state' = IF state = "OPEN" THEN "HALF_OPEN" ELSE state
            /\ cb_pc' = "running"
            /\ invoked' = invoked + 1
            /\ cb_outcome' = "none"
    /\ UNCHANGED <<clock, failure_count, last_failure_time>>
    /\ UNCHANGED <<varsCache, varsLimiter, varsCore>>

\* func returns: _on_success.
FuncReturns ==
    /\ cb_pc = "running"
    /\ IF state = "HALF_OPEN"
       THEN state' = "CLOSED" /\ failure_count' = 0
       ELSE UNCHANGED <<state, failure_count>>
    /\ cb_outcome' = "returned"
    /\ cb_pc' = "idle"
    /\ UNCHANGED <<clock, ops, last_failure_time, invoked>>
    /\ UNCHANGED <<varsCache, varsLimiter, varsCore>>

\* func raises: _on_failure, and the exception goes on to the caller.
FuncRaises ==
    /\ cb_pc = "running"
    /\ failure_count' = failure_count + 1
    /\ last_failure_time' = clock
    /\ state' = IF failure_count + 1 >= failure_threshold THEN "OPEN" ELSE state
    /\ cb_outcome' = "raised"
    /\ cb_pc' = "idle"
    /\ UNCHANGED <<clock, ops, invoked>>
    /\ UNCHANGED <<varsCache, varsLimiter, varsCore>>

\* A second passes.
ClockTick ==
    /\ clock < MaxClock
    /\ clock' = clock + 1
    /\ UNCHANGED <<ops, varsBreaker, varsCache, varsLimiter, varsCore>>

NextBreaker == EnterBreaker \/ FuncReturns \/ FuncRaises \/ ClockTick

SpecBreaker == InitBreaker /\ [][NextBreaker]_vars

\* A call of the wrapper starts in this step.
CallStarts == ops' = ops + 1 /\ cb_pc = "idle"

\* C36: once the failure count reaches failure_threshold the breaker is OPEN;
\* while it is OPEN and less than recovery_timeout seconds have passed since
\* the last failure every call is rejected without invoking the function;
\* after more than recovery_timeout seconds the next call runs in HALF_OPEN;
\* a failure of that call opens the breaker again, so that the following
\* call is rejected.
C36_BreakerTransitions ==
    /\ [](state = "OPEN" => failure_count >= failure_threshold)
    /\ [][/\ (failure_count' = failure_count + 1 /\ failure_count' >= failure_threshold)
                => state' = "OPEN"
          /\ (CallStarts /\ state = "OPEN" /\ clock - last_failure_time < recovery_timeout)
                => /\ cb_outcome' = "rejected"
                   /\ invoked' = invoked
                   /\ state' = "OPEN"
          /\ (CallStarts /\ state = "OPEN" /\ clock - last_failure_time > recovery_timeout)
                => /\ state' = "HALF_OPEN"
                   /\ cb_pc' = "running"
                   /\ invoked' = invoked + 1
          /\ (cb_pc = "running" /\ state = "HALF_OPEN" /\ cb_outcome' = "raised")
                => /\ state' = "OPEN"
                   /\ last_failure_time' = clock]_vars

\* The breaker opened, let one call through after the recovery time, opened
\* again when that call failed, and rejected the call after it.
C36_Witness ==
    /\ state = "OPEN"
    /\ cb_outcome = "rejected"
    /\ invoked = failure_threshold + 1
    /\ failure_count = failure_threshold + 1
    /\ clock - last_failure_time < recovery_timeout

\* ---------------------------------------------------------------------
\* The memory cache under set, get and delete
\* ---------------------------------------------------------------------

InitMemoryCache ==
    /\ clock = 0
    /\ ops = 0
    /\ CacheIdle
    /\ BreakerIdle
    /\ LimiterIdle
    /\ SSEIdle
    /\ ConvIdle
    /\ CoalIdle
    /\ HandlerIdle
    /\ PaceIdle

\* set(key, value, ttl), under self._lock from its first line to its last.
CacheSet ==
    /\ ops < MaxOps
    /\ \E key \in Keys, value \in Values, ttl \in TTLs :
          /\ _cache' = MemorySet(_cache, key, value, ttl, clock, ops + 1)
          /\ evictions' = IF /\ Cardinality(InCache(_cache)) >= max_size
                             /\ ~_cache[key].present
                             /\ InCache(_cache) # {}
                          THEN evictions + 1 ELSE evictions
    /\ ops' = ops + 1
    /\ UNCHANGED <<clock, mc_result, varsBreaker, varsLimiter, varsCore>>

\* get(key), under self._lock: an expired entry is deleted on the way.
CacheGet ==
    /\ ops < MaxOps
    /\ \E key \in Keys :
          /\ mc_result' = MemoryGet(_cache, key, clock).value
          /\ _cache' = MemoryGet(_cache, key, clock).cache
    /\ ops' = ops + 1
    /\ UNCHANGED <<clock, evictions, varsBreaker, varsLimiter, varsCore>>

\* delete(key), under self._lock.
CacheDelete ==
    /\ ops < MaxOps
    /\ \E key \in InCache(_cache) :
          _cache' = [_cache EXCEPT ![key] = NoItem]
    /\ ops' = ops + 1
    /\ UNCHANGED <<clock, mc_result, evictions, varsBreaker, varsLimiter, varsCore>>

NextMemoryCache == CacheSet \/ CacheGet \/ CacheDelete \/ ClockTick

SpecMemoryCache == InitMemoryCache /\ [][NextMemoryCache]_vars

\* C37: the cache never holds more than max_size entries; a set of a new key
\* in a full cache removes exactly one entry, one whose last access is the
\* oldest, and leaves the others as they were, so that right after it a get
\* of the removed key misses and a get of the new key hits.
C37_NeverExceedsMaxSize ==
    /\ [](Cardinality(InCache(_cache)) <= max_size)
    /\ [][\A key \in Keys :
            ( /\ ~_cache[key].present
              /\ _cache'[key].present
              /\ Cardinality(InCache(_cache)) >= max_size )
            => \E lru_key \in InCache(_cache) :
                  /\ InCache(_cache') = (InCache(_cache) \ {lru_key}) \cup {key}
                  /\ \A k \in InCache(_cache) :
                        _cache[lru_key].last_accessed <= _cache[k].last_accessed
                  /\ \A k \in InCache(_cache) \ {lru_key} : _cache'[k] = _cache[k]
                  /\ evictions' = evictions + 1
                  /\ ~IsHit(_cache', lru_key, clock')
                  /\ IsHit(_cache', key, clock')]_vars

\* A full cache after one eviction, holding an entry inserted after the
\* cache was full, with entries that were accessed at different times.
C37_Witness ==
    /\ evictions = 1
    /\ Cardinality(InCache(_cache)) = max_size
    /\ \E k \in InCache(_cache) : _cache[k].slot > max_size
    /\ \A k \in InCache(_cache) : _cache[k].last_accessed > 0
    /\ \E j, k \in InCache(_cache) : _cache[j].last_accessed < _cache[k].last_accessed

\* ---------------------------------------------------------------------
\* The rate_limit decorator, entered by several request threads
\* ---------------------------------------------------------------------
\* call_times is one list per decorated function, shared by the threads and
\* read and written without a lock; a thread may be preempted between any
\* two statements of the wrapper.

InitRateLimit ==
    /\ clock = 0
    /\ ops = 0
    /\ LimiterIdle
    /\ BreakerIdle
    /\ CacheIdle
    /\ SSEIdle
    /\ ConvIdle
    /\ CoalIdle
    /\ HandlerIdle
    /\ PaceIdle

LimiterFrame == <<varsBreaker, varsCache, varsCore>>

\* current_time = time.time()
RlEnter(t) ==
    /\ rl_pc[t] \in {"idle", "rejected"}
    /\ ops < MaxOps
    /\ ops' = ops + 1
    /\ rl_time' = [rl_time EXCEPT ![t] = clock]
    /\ rl_pc' = [rl_pc EXCEPT ![t] = "filter"]
    /\ UNCHANGED <<clock, call_times, kept, executions, LimiterFrame>>

\* [call_time for call_time in call_times if current_time - call_time < period]
RlFilter(t) ==
    /\ rl_pc[t] = "filter"
    /\ LET Recent(call_time) == rl_time[t] - call_time < period
       IN kept' = [kept EXCEPT ![t] = SelectSeq(call_times, Recent)]
    /\ rl_pc' = [rl_pc EXCEPT ![t] = "assign"]
    /\ UNCHANGED <<clock, ops, call_times, rl_time, executions, LimiterFrame>>

\* call_times[:] = ...
RlAssign(t) ==
    /\ rl_pc[t] = "assign"
    /\ call_times' = kept[t]
    /\ rl_pc' = [rl_pc EXCEPT ![t] = "check"]
    /\ UNCHANGED <<clock, ops, rl_time, kept, executions, LimiterFrame>>

\* if len(call_times) >= calls: raise RateLimitError(...)
RlCheck(t) ==
    /\ rl_pc[t] = "check"
    /\ rl_pc' = [rl_pc EXCEPT ![t] = IF Len(call_times) >= calls
                                     THEN "rejected" ELSE "record"]
    /\ UNCHANGED <<clock, ops, call_times, rl_time, kept, executions, LimiterFrame>>

\* call_times.append(current_time)
RlRecord(t) ==
    /\ rl_pc[t] = "record"
    /\ call_times' = Append(call_times, rl_time[t])
    /\ rl_pc' = [rl_pc EXCEPT ![t] = "call"]
    /\ UNCHANGED <<clock, ops, rl_time, kept, executions, LimiterFrame>>

\* return func(*args, **kwargs)
RlCall(t) ==
    /\ rl_pc[t] = "call"
    /\ executions' = Append(executions, rl_time[t])
    /\ rl_pc' = [rl_pc EXCEPT ![t] = "idle"]
    /\ UNCHANGED <<clock, ops, call_times, rl_time, kept, LimiterFrame>>

NextRateLimit ==
    \/ \E t \in Threads :
          \/ RlEnter(t)
          \/ RlFilter(t)
          \/ RlAssign(t)
          \/ RlCheck(t)
          \/ RlRecord(t)
          \/ RlCall(t)
    \/ ClockTick

SpecRateLimit == InitRateLimit /\ [][NextRateLimit]_vars

\* The executions whose call entered the wrapper in the period seconds that
\* start with the entry of execution i.
InWindow(i) ==
    {j \in 1..Len(executions) :
        executions[i] <= executions[j] /\ executions[j] - executions[i] < period}

\* C40: of the calls that enter the wrapper within any window of period
\* seconds at most `calls` go on to execute the handler, also when several
\* threads are in the wrapper at once.
C40_AtMostCallsPerPeriod ==
    \A i \in 1..Len(executions) : Cardinality(InWindow(i)) <= calls

====
